-------------------------- MODULE TriggerLogProofs --------------------------
(* What holds of TriggerLog for every value of its constants *)
EXTENDS TriggerLogInv, SequenceTheorems, TLAPS

LEMMA Bounds == MaxRetry \in Nat /\ MaxFails \in Nat /\ AnyJob \in Jobs
<1>1. \A S : S # {} => (CHOOSE j \in S : TRUE) \in S
  OBVIOUS
<1> QED
  BY <1>1, ConstantsAssumption DEF AnyJob

LEMMA CodesAre == Codes = {0, 200, 500} /\ Success = 200 /\ Fail = 500 /\ Codes \subseteq Nat
BY DEF Codes, Success, Fail

-----------------------------------------------------------------------------
(* Sequences *)

\* Where the elements are once one is appended, once the first is gone, and once one is changed.
LEMMA AppendPlaces ==
  ASSUME NEW S, NEW s \in Seq(S), NEW e \in S
  PROVE  /\ Append(s, e) \in Seq(S) /\ Len(Append(s, e)) = Len(s) + 1 /\ Len(s) \in Nat
         /\ DOMAIN s = 1..Len(s) /\ DOMAIN Append(s, e) = 1..Len(s) + 1
         /\ Append(s, e)[Len(s) + 1] = e
         /\ \A i \in 1..Len(s) : Append(s, e)[i] = s[i]
OBVIOUS

LEMMA TailPlaces ==
  ASSUME NEW S, NEW s \in Seq(S), s # << >>
  PROVE  /\ Tail(s) \in Seq(S) /\ Head(s) = s[1] /\ Len(s) \in Nat \ {0} /\ s[1] \in S
         /\ DOMAIN s = 1..Len(s) /\ DOMAIN Tail(s) = 1..Len(s) - 1
         /\ \A i \in 1..Len(s) - 1 : Tail(s)[i] = s[i + 1]
OBVIOUS

LEMMA ExceptPlaces ==
  ASSUME NEW S, NEW s \in Seq(S), NEW i \in DOMAIN s, NEW e \in S
  PROVE  /\ [s EXCEPT ![i] = e] \in Seq(S) /\ Len([s EXCEPT ![i] = e]) = Len(s)
         /\ DOMAIN [s EXCEPT ![i] = e] = DOMAIN s /\ [s EXCEPT ![i] = e][i] = e
         /\ \A k \in DOMAIN s : k # i => [s EXCEPT ![i] = e][k] = s[k]
OBVIOUS

LEMMA EmptyPlaces == \A S : << >> \in Seq(S) /\ Len(<< >>) = 0 /\ DOMAIN << >> = {}
OBVIOUS

-----------------------------------------------------------------------------
(* Types *)

\* The rows of the log, what the executor has of them, and the pool's queue.
LEMMA RowsAre ==
  ASSUME TypeOK
  PROVE  /\ Len(log) \in Nat /\ DOMAIN log = 1..Len(log) /\ DOMAIN exec = DOMAIN log
         /\ \A l \in DOMAIN log :
              /\ log[l] \in Row
              /\ log[l].there \in BOOLEAN /\ log[l].job \in Jobs /\ log[l].retry \in 0..MaxRetry
              /\ log[l].trigger \in Codes /\ log[l].exec \in Codes /\ log[l].parent \in Nat
              /\ exec[l] \in {"none", "accepted", "done"}
<1>1. log \in Seq(Row) /\ exec \in Seq({"none", "accepted", "done"}) /\ Len(log) = Len(exec)
  BY DEF TypeOK
<1>2. \A l \in DOMAIN log : log[l] \in Row
  BY <1>1
<1>3. DOMAIN log = 1..Len(log) /\ DOMAIN exec = 1..Len(log) /\ Len(log) \in Nat
  BY <1>1
<1>4. \A l \in DOMAIN exec : exec[l] \in {"none", "accepted", "done"}
  BY <1>1
<1> QED
  BY <1>2, <1>3, <1>4 DEF Row

LEMMA TasksAre ==
  ASSUME TypeOK
  PROVE  /\ Len(queue) \in Nat /\ DOMAIN queue = 1..Len(queue)
         /\ \A i \in DOMAIN queue :
              /\ queue[i] \in Task /\ queue[i].job \in Jobs /\ queue[i].retry \in -1..MaxRetry
              /\ queue[i].parent \in Nat
<1>1. queue \in Seq(Task)
  BY DEF TypeOK
<1>2. \A i \in DOMAIN queue : queue[i] \in Task
  BY <1>1
<1> QED
  BY <1>1, <1>2 DEF Task

LEMMA WorkersAre ==
  ASSUME TypeOK, NEW w \in Workers
  PROVE  /\ worker[w] \in Worker /\ worker[w].job \in Jobs /\ worker[w].log \in Nat
         /\ worker[w].retry \in 0..MaxRetry /\ worker[w].parent \in Nat /\ worker[w].code \in Codes
         /\ worker[w].pc \in {"idle", "insert", "send", "wait", "result"}
BY DEF TypeOK, Worker

\* What stands for nothing is well typed.
LEMMA NothingTyped ==
  /\ Idle \in Worker /\ Idle.pc = "idle" /\ NoLog \in Snapshot /\ NoInfo \in Info
  /\ NoLog.id = 0 /\ NoLog.row.retry = 0
<1>1. /\ {0, Success, Fail} = Codes /\ 0 \in Codes /\ 0 \in 0..MaxRetry /\ 0 \in Nat
      /\ AnyJob \in Jobs
  BY Bounds, CodesAre
<1>2. Idle \in Worker /\ Idle.pc = "idle"
  BY <1>1 DEF Idle, Worker
<1>3. NoInfo \in Info
  BY <1>1 DEF NoInfo, Info
<1>4. NoRow \in Row /\ NoRow.retry = 0
  BY <1>1 DEF NoRow, Row, Alarm
<1> QED
  BY <1>1, <1>2, <1>3, <1>4 DEF NoLog, Snapshot

LEMMA InitType == Init => TypeOK
<1> SUFFICES ASSUME Init PROVE TypeOK
  OBVIOUS
<1>1. /\ log \in Seq(Row) /\ Len(log) = Len(exec) /\ exec \in Seq({"none", "accepted", "done"})
      /\ queue \in Seq(Task)
  BY EmptyPlaces DEF Init
<1>2. job \in [Jobs -> Info]
  BY DEF Init
<1>3. worker \in [Workers -> Worker] /\ monLog \in Snapshot /\ monInfo \in Info
  BY NothingTyped DEF Init
<1> QED
  BY <1>1, <1>2, <1>3 DEF Init, TypeOK, Alarm

-----------------------------------------------------------------------------
(* What each step writes to the log *)

\* The columns of the rows that say what is repeated, and with what left.
SameRows ==
  /\ DOMAIN log' = DOMAIN log
  /\ \A l \in DOMAIN log :
       /\ log'[l].job = log[l].job /\ log'[l].retry = log[l].retry
       /\ log'[l].trigger = log[l].trigger /\ log'[l].parent = log[l].parent

\* No row comes back, and none is to be alarmed about again.
RowsAge ==
  \A l \in DOMAIN log : /\ log'[l].there => log[l].there
                        /\ log'[l].alarm = "DEFAULT" => log[l].alarm = "DEFAULT"

SameResults == \A l \in DOMAIN log : log'[l].exec = log[l].exec

\* A step that leaves the log alone.
LEMMA LogKept == ASSUME UNCHANGED log PROVE SameRows /\ RowsAge /\ SameResults
BY DEF SameRows, RowsAge, SameResults

LEMMA InsertRow ==
  ASSUME TypeOK, NEW w \in Workers, TriggerInsert(w)
  PROVE  /\ log' \in Seq(Row) /\ exec' \in Seq({"none", "accepted", "done"})
         /\ Len(log)' = Len(log) + 1 /\ Len(exec)' = Len(log) + 1 /\ Len(log) \in Nat
         /\ DOMAIN log = 1..Len(log) /\ DOMAIN log' = 1..Len(log) + 1
         /\ log'[Len(log) + 1] = NewRow(w) /\ exec'[Len(log) + 1] = "none"
         /\ \A l \in DOMAIN log : log'[l] = log[l] /\ exec'[l] = exec[l]
         /\ NewRow(w).parent = worker[w].parent /\ NewRow(w).trigger = 0 /\ NewRow(w).retry = 0
         /\ NewRow(w).exec = 0 /\ NewRow(w).alarm = "DEFAULT" /\ NewRow(w).job = worker[w].job
<1>1. 0 \in Codes /\ 0 \in 0..MaxRetry
  BY Bounds, CodesAre
<1>2. NewRow(w) \in Row
  BY <1>1, WorkersAre DEF NewRow, Row, Alarm
<1>3. /\ log \in Seq(Row) /\ exec \in Seq({"none", "accepted", "done"}) /\ Len(exec) = Len(log)
      /\ log' = Append(log, NewRow(w)) /\ exec' = Append(exec, "none")
  BY DEF TypeOK, TriggerInsert
<1>4. /\ log' \in Seq(Row) /\ Len(log') = Len(log) + 1 /\ Len(log) \in Nat
      /\ DOMAIN log = 1..Len(log) /\ DOMAIN log' = 1..Len(log) + 1
      /\ log'[Len(log) + 1] = NewRow(w) /\ \A l \in 1..Len(log) : log'[l] = log[l]
  BY <1>2, <1>3, AppendPlaces
<1>5. /\ exec' \in Seq({"none", "accepted", "done"}) /\ Len(exec') = Len(exec) + 1
      /\ exec'[Len(exec) + 1] = "none" /\ \A l \in 1..Len(exec) : exec'[l] = exec[l]
  <2> DEFINE E == {"none", "accepted", "done"}
  <2>1. exec \in Seq(E) /\ "none" \in E
    BY <1>3
  <2> HIDE DEF E
  <2>2. /\ Append(exec, "none") \in Seq(E) /\ Len(Append(exec, "none")) = Len(exec) + 1
        /\ Append(exec, "none")[Len(exec) + 1] = "none"
        /\ \A l \in 1..Len(exec) : Append(exec, "none")[l] = exec[l]
    BY <2>1, AppendPlaces
  <2> QED
    BY <2>2, <1>3 DEF E
<1> QED
  BY <1>3, <1>4, <1>5 DEF NewRow

LEMMA ResultRow ==
  ASSUME TypeOK, RowsOwned, NEW w \in Workers, TriggerResult(w)
  PROVE  /\ worker[w].log \in DOMAIN log /\ log' \in Seq(Row) /\ Len(log)' = Len(log)
         /\ DOMAIN log' = DOMAIN log /\ log[worker[w].log].trigger = 0
         /\ log'[worker[w].log].trigger = worker[w].code /\ worker[w].code # 0
         /\ log'[worker[w].log].retry = worker[w].retry
         /\ log'[worker[w].log].alarm = "DEFAULT"
         /\ log'[worker[w].log].exec = log[worker[w].log].exec
         /\ log'[worker[w].log].there = log[worker[w].log].there
         /\ log'[worker[w].log].job = log[worker[w].log].job
         /\ log'[worker[w].log].parent = log[worker[w].log].parent
         /\ \A l \in DOMAIN log : l # worker[w].log => log'[l] = log[l]
<1> DEFINE l == worker[w].log
<1>1. /\ l \in DOMAIN log /\ log[l].trigger = 0 /\ worker[w].code # 0
  BY DEF TriggerResult, RowsOwned, Writes
<1>2. log[l] \in Row
  BY <1>1, RowsAre
<1>3. WithResult(log[l], w) \in Row
  BY <1>2, WorkersAre DEF WithResult, Row, Alarm
<1> DEFINE r == WithResult(log[l], w)
<1>4. /\ r.trigger = worker[w].code /\ r.retry = worker[w].retry /\ r.alarm = "DEFAULT"
      /\ r.exec = log[l].exec /\ r.there = log[l].there /\ r.job = log[l].job
      /\ r.parent = log[l].parent
  BY <1>2 DEF WithResult, Row
<1>5. log' = [log EXCEPT ![l] = r] /\ log \in Seq(Row)
  BY DEF TriggerResult, TypeOK
<1> HIDE DEF r, l
<1>6. /\ log' \in Seq(Row) /\ Len(log') = Len(log) /\ DOMAIN log' = DOMAIN log /\ log'[l] = r
      /\ \A k \in DOMAIN log : k # l => log'[k] = log[k]
  BY <1>1, <1>3, <1>5, ExceptPlaces DEF r
<1> QED
  BY <1>1, <1>4, <1>6 DEF l

LEMMA CallbackRow ==
  ASSUME TypeOK, OneCallback, NEW c \in callbacks, CallbackWrite(c)
  PROVE  /\ log' \in Seq(Row) /\ Len(log)' = Len(log) /\ SameRows /\ RowsAge /\ c.log \in DOMAIN log
         /\ \A l \in DOMAIN log : l # c.log => log'[l].exec = log[l].exec
<1>1. c.log \in DOMAIN log /\ c.code \in Codes /\ log \in Seq(Row)
  BY DEF OneCallback, TypeOK, Callback
<1>2. CASE log[c.log].there
  <2> DEFINE r == [log[c.log] EXCEPT !.exec = c.code]
  <2>1. log[c.log] \in Row
    BY <1>1, RowsAre
  <2>2. /\ r \in Row /\ r.job = log[c.log].job /\ r.retry = log[c.log].retry
        /\ r.trigger = log[c.log].trigger /\ r.parent = log[c.log].parent
        /\ r.there = log[c.log].there /\ r.alarm = log[c.log].alarm
    BY <2>1, <1>1 DEF Row
  <2>3. log' = [log EXCEPT ![c.log] = r]
    BY <1>2 DEF CallbackWrite
  <2> HIDE DEF r
  <2>4. /\ log' \in Seq(Row) /\ Len(log') = Len(log) /\ DOMAIN log' = DOMAIN log /\ log'[c.log] = r
        /\ \A k \in DOMAIN log : k # c.log => log'[k] = log[k]
    BY <1>1, <2>2, <2>3, ExceptPlaces
  <2> QED
    BY <1>1, <2>2, <2>4 DEF SameRows, RowsAge
<1>3. CASE ~log[c.log].there
  <2>1. UNCHANGED log
    BY <1>3 DEF CallbackWrite
  <2> QED
    BY <1>1, <2>1, LogKept DEF SameResults
<1> QED
  BY <1>2, <1>3

LEMMA AlarmRow ==
  ASSUME TypeOK, Copies, MonUpdate
  PROVE  /\ log' \in Seq(Row) /\ Len(log)' = Len(log) /\ SameRows /\ RowsAge /\ SameResults
         /\ monLog.id \in DOMAIN log
         /\ log'[monLog.id].there => log'[monLog.id].alarm # "DEFAULT"
<1>1. monLog.id \in DOMAIN log /\ monStatus \in Alarm /\ monStatus # "DEFAULT" /\ log \in Seq(Row)
  BY DEF Copies, Selected, MonUpdate, TypeOK
<1> DEFINE l == monLog.id
<1>2. CASE log[l].there
  <2> DEFINE r == [log[l] EXCEPT !.alarm = monStatus]
  <2>1. log[l] \in Row
    BY <1>1, RowsAre
  <2>2. /\ r \in Row /\ r.job = log[l].job /\ r.retry = log[l].retry
        /\ r.trigger = log[l].trigger /\ r.parent = log[l].parent
        /\ r.there = log[l].there /\ r.exec = log[l].exec /\ r.alarm = monStatus
    BY <2>1, <1>1 DEF Row
  <2>3. log' = [log EXCEPT ![l] = r]
    BY <1>2 DEF MonUpdate, NewAlarmStatus
  <2> HIDE DEF r
  <2>4. /\ log' \in Seq(Row) /\ Len(log') = Len(log) /\ DOMAIN log' = DOMAIN log /\ log'[l] = r
        /\ \A k \in DOMAIN log : k # l => log'[k] = log[k]
    BY <1>1, <2>2, <2>3, ExceptPlaces
  <2> QED
    BY <1>1, <2>2, <2>4 DEF SameRows, RowsAge, SameResults
<1>3. CASE ~log[l].there
  <2>1. UNCHANGED log
    BY <1>3 DEF MonUpdate
  <2> QED
    BY <1>1, <1>3, <2>1, LogKept
<1> QED
  BY <1>2, <1>3

LEMMA DeletedRows ==
  ASSUME TypeOK, NEW S \in SUBSET DOMAIN log, DeleteLogs(S)
  PROVE  log' \in Seq(Row) /\ Len(log)' = Len(log) /\ SameRows /\ RowsAge /\ SameResults
<1> DEFINE D(l) == [log[l] EXCEPT !.there = @ /\ l \notin S]
<1>1. /\ Len(log) \in Nat /\ DOMAIN log = 1..Len(log) /\ \A l \in DOMAIN log : log[l] \in Row
  BY RowsAre
<1>2. log' = [l \in 1..Len(log) |-> D(l)]
  BY <1>1 DEF DeleteLogs
<1>3. \A l \in DOMAIN log :
        /\ D(l) \in Row /\ D(l).job = log[l].job /\ D(l).retry = log[l].retry
        /\ D(l).trigger = log[l].trigger /\ D(l).parent = log[l].parent
        /\ D(l).exec = log[l].exec /\ D(l).alarm = log[l].alarm /\ (D(l).there => log[l].there)
  BY <1>1 DEF Row
<1> HIDE DEF D
<1>4. \A l \in 1..Len(log) : log'[l] = D(l)
  BY <1>2
<1>5. log' \in Seq(Row) /\ Len(log') = Len(log) /\ DOMAIN log' = 1..Len(log)
  BY <1>1, <1>2, <1>3
<1> QED
  BY <1>1, <1>3, <1>4, <1>5 DEF SameRows, RowsAge, SameResults

-----------------------------------------------------------------------------
(* Every step keeps the types *)

\* The pool's threads: one of them moves.
LEMMA WorkerTyped ==
  ASSUME TypeOK, NEW w \in Workers, NEW k, worker' = [worker EXCEPT ![w] = k]
  PROVE  /\ k \in Worker => worker' \in [Workers -> Worker]
         /\ worker'[w] = k /\ \A v \in Workers : v # w => worker'[v] = worker[v]
BY DEF TypeOK

LEMMA LookUpWorker ==
  ASSUME TypeOK, NEW w \in Workers, TriggerLookUp(w)
  PROVE  /\ \A i \in DOMAIN queue' : i + 1 \in DOMAIN queue /\ queue'[i] = queue[i + 1]
         /\ queue' \in Seq(Task) /\ 1 \in DOMAIN queue /\ worker[w].pc = "idle"
         /\ \/ UNCHANGED worker
            \/ /\ worker'[w] \in Worker /\ worker'[w].pc = "insert" /\ job[queue[1].job].there
               /\ worker'[w].parent = queue[1].parent /\ worker'[w].job = queue[1].job
               /\ queue[1].retry >= 0 => worker'[w].retry = queue[1].retry
               /\ worker' \in [Workers -> Worker]
               /\ \A v \in Workers : v # w => worker'[v] = worker[v]
<1>1. queue \in Seq(Task) /\ queue # << >> /\ queue' = Tail(queue)
  BY DEF TypeOK, TriggerLookUp
<1>2. /\ queue' \in Seq(Task) /\ Head(queue) = queue[1] /\ Len(queue) \in Nat \ {0}
      /\ queue[1] \in Task /\ DOMAIN queue = 1..Len(queue) /\ DOMAIN queue' = 1..Len(queue) - 1
      /\ \A i \in 1..Len(queue) - 1 : queue'[i] = queue[i + 1]
  BY <1>1, TailPlaces
<1>3. \A i \in DOMAIN queue' : i + 1 \in DOMAIN queue /\ queue'[i] = queue[i + 1]
  BY <1>2
<1> DEFINE t == queue[1]
           k == [Idle EXCEPT !.pc = "insert", !.job = t.job, !.retry = RetryCount(t),
                             !.parent = t.parent]
<1>4. /\ t.job \in Jobs /\ t.retry \in -1..MaxRetry /\ t.parent \in Nat
  BY <1>2 DEF Task
<1>5. RetryCount(t) \in 0..MaxRetry /\ (t.retry >= 0 => RetryCount(t) = t.retry)
  <2>1. job[t.job].retry \in 0..MaxRetry
    BY <1>4 DEF TypeOK, Info
  <2> QED
    BY <2>1, <1>4, Bounds DEF RetryCount
<1>6. /\ k \in Worker /\ k.pc = "insert" /\ k.job = t.job /\ k.retry = RetryCount(t)
      /\ k.parent = t.parent
  BY <1>4, <1>5, NothingTyped DEF Worker
<1>7. UNCHANGED worker \/ (job[t.job].there /\ worker' = [worker EXCEPT ![w] = k])
  BY <1>2 DEF TriggerLookUp
<1> HIDE DEF k
<1>8. ASSUME worker' = [worker EXCEPT ![w] = k]
      PROVE  /\ worker' \in [Workers -> Worker] /\ worker'[w] = k
             /\ \A v \in Workers : v # w => worker'[v] = worker[v]
  BY <1>6, <1>8, WorkerTyped
<1> QED
  BY <1>2, <1>3, <1>5, <1>6, <1>7, <1>8 DEF TriggerLookUp

LEMMA InsertWorker ==
  ASSUME TypeOK, NEW w \in Workers, TriggerInsert(w)
  PROVE  /\ worker' \in [Workers -> Worker] /\ worker[w].pc = "insert"
         /\ worker'[w].pc = "send" /\ worker'[w].log = Len(log) + 1
         /\ worker'[w].parent = worker[w].parent /\ worker'[w].retry = worker[w].retry
         /\ \A v \in Workers : v # w => worker'[v] = worker[v]
<1> DEFINE k == [worker[w] EXCEPT !.pc = "send", !.log = Len(log) + 1]
<1>1. worker[w] \in Worker /\ Len(log) + 1 \in Nat
  BY WorkersAre, RowsAre
<1>2. /\ k \in Worker /\ k.pc = "send" /\ k.log = Len(log) + 1 /\ k.parent = worker[w].parent
      /\ k.retry = worker[w].retry
  BY <1>1 DEF Worker
<1>3. worker' = [worker EXCEPT ![w] = k] /\ worker[w].pc = "insert"
  BY DEF TriggerInsert, TypeOK
<1> HIDE DEF k
<1> QED
  BY <1>2, <1>3, WorkerTyped

\* A thread that has a row, and goes on with it.
LEMMA SendWorker ==
  ASSUME TypeOK, RowsOwned, NEW w \in Workers, TriggerSend(w) \/ TriggerReply(w)
  PROVE  /\ worker' \in [Workers -> Worker] /\ Writes(w) /\ worker[w].pc \in {"send", "wait"}
         /\ worker'[w].pc \in {"wait", "result"} /\ worker'[w].log = worker[w].log
         /\ worker'[w].parent = worker[w].parent /\ worker'[w].retry = worker[w].retry
         /\ worker'[w].pc = "result" => worker'[w].code # 0
         /\ \A v \in Workers : v # w => worker'[v] = worker[v]
         /\ exec' \in Seq({"none", "accepted", "done"}) /\ Len(exec)' = Len(exec)
         /\ \A l \in DOMAIN log : exec'[l] = exec[l] \/ (l = worker[w].log
              /\ worker[w].pc = "send" /\ exec[l] = "none" /\ exec'[l] = "accepted")
<1> DEFINE Result(c) == [worker[w] EXCEPT !.pc = "result", !.code = c]
           Wait == [worker[w] EXCEPT !.pc = "wait"]
           E == {"none", "accepted", "done"}
<1>1. worker[w] \in Worker /\ Writes(w) /\ worker[w].pc \in {"send", "wait"}
  BY WorkersAre DEF TriggerSend, TriggerReply, Writes
<1>2. /\ worker[w].log \in DOMAIN exec /\ exec \in Seq(E) /\ "accepted" \in E
      /\ DOMAIN exec = DOMAIN log /\ (worker[w].pc = "send" => exec[worker[w].log] = "none")
  BY <1>1, RowsAre DEF RowsOwned, TypeOK
<1>3. ASSUME NEW c \in {Success, Fail}
      PROVE  /\ Result(c) \in Worker /\ Result(c).pc = "result" /\ Result(c).code # 0
             /\ Result(c).log = worker[w].log /\ Result(c).parent = worker[w].parent
             /\ Result(c).retry = worker[w].retry
  <2>1. c \in Codes /\ c # 0
    BY CodesAre
  <2> QED
    BY <1>1, <2>1 DEF Worker
<1>4. /\ Wait \in Worker /\ Wait.pc = "wait" /\ Wait.log = worker[w].log
      /\ Wait.parent = worker[w].parent /\ Wait.retry = worker[w].retry
  BY <1>1 DEF Worker
<1>5. \/ UNCHANGED exec /\ \E c \in {Success, Fail} : worker' = [worker EXCEPT ![w] = Result(c)]
      \/ /\ worker' = [worker EXCEPT ![w] = Wait] /\ worker[w].pc = "send"
         /\ exec' = [exec EXCEPT ![worker[w].log] = "accepted"]
  BY DEF TriggerSend, TriggerReply, TypeOK
<1> HIDE DEF E, Result, Wait
<1>6. CASE UNCHANGED exec /\ \E c \in {Success, Fail} : worker' = [worker EXCEPT ![w] = Result(c)]
  <2>1. PICK c \in {Success, Fail} : worker' = [worker EXCEPT ![w] = Result(c)]
    BY <1>6
  <2>2. worker' \in [Workers -> Worker] /\ worker'[w] = Result(c)
        /\ \A v \in Workers : v # w => worker'[v] = worker[v]
    BY <2>1, <1>3, WorkerTyped
  <2> QED
    BY <2>2, <1>1, <1>2, <1>3, <1>6 DEF E
<1>7. CASE /\ worker' = [worker EXCEPT ![w] = Wait] /\ worker[w].pc = "send"
           /\ exec' = [exec EXCEPT ![worker[w].log] = "accepted"]
  <2>1. worker' \in [Workers -> Worker] /\ worker'[w] = Wait
        /\ \A v \in Workers : v # w => worker'[v] = worker[v]
    BY <1>4, <1>7, WorkerTyped
  <2>2. /\ exec' \in Seq(E) /\ Len(exec') = Len(exec) /\ exec'[worker[w].log] = "accepted"
        /\ \A l \in DOMAIN exec : l # worker[w].log => exec'[l] = exec[l]
    BY <1>2, <1>7, ExceptPlaces
  <2> QED
    BY <2>1, <2>2, <1>1, <1>2, <1>4, <1>7 DEF E
<1> QED
  BY <1>5, <1>6, <1>7

\* A thread that is done.
LEMMA IdleWorker ==
  ASSUME TypeOK, NEW w \in Workers, worker' = [worker EXCEPT ![w] = Idle]
  PROVE  /\ worker' \in [Workers -> Worker] /\ worker'[w].pc = "idle"
         /\ \A v \in Workers : v # w => worker'[v] = worker[v]
BY NothingTyped, WorkerTyped

\* A push is the last of the queue.
LEMMA PushPlaces ==
  ASSUME TypeOK, NEW t \in Task, Push(t)
  PROVE  /\ queue' \in Seq(Task) /\ Len(queue) \in Nat /\ DOMAIN queue = 1..Len(queue)
         /\ DOMAIN queue' = 1..Len(queue) + 1 /\ queue'[Len(queue) + 1] = t
         /\ \A i \in DOMAIN queue : queue'[i] = queue[i]
BY AppendPlaces DEF TypeOK, Push

LEMMA FireTask ==
  ASSUME NEW j \in Jobs
  PROVE  /\ [job |-> j, retry |-> -1, parent |-> 0] \in Task
         /\ [job |-> j, retry |-> -1, parent |-> 0].parent = 0
BY Bounds DEF Task

\* The retry of a row: its job, and one retry less than the row had.
LEMMA RetryTask ==
  ASSUME TypeOK, monLog.row.retry > 0,
         NEW t, t = [job |-> monLog.row.job, retry |-> monLog.row.retry - 1, parent |-> monLog.id]
  PROVE  /\ t \in Task /\ t.parent = monLog.id /\ t.retry = monLog.row.retry - 1
         /\ t.job = monLog.row.job
<1>1. monLog.id \in Nat /\ monLog.row.job \in Jobs /\ monLog.row.retry \in 0..MaxRetry
  BY DEF TypeOK, Snapshot, Row
<1>2. monLog.row.retry - 1 \in -1..MaxRetry
  BY <1>1, Bounds
<1> QED
  BY <1>1, <1>2 DEF Task

LEMMA MonitorTyped ==
  ASSUME TypeOK, Monitor \/ MonException \/ MonReset
  PROVE  /\ monPc' \in {"sleep", "logs", "retry", "alarm", "update"}
         /\ monLogs' \subseteq Snapshot /\ monLog' \in Snapshot /\ monInfo' \in Info
         /\ monStatus' \in Alarm
<1>1. CASE MonReset
  BY <1>1, NothingTyped DEF MonReset, Alarm
<1>2. CASE MonRest \/ MonReject \/ MonException
  BY <1>1, <1>2 DEF MonRest, MonReject, MonException
<1>3. CASE MonSelect
  <2>1. \A l \in DOMAIN log : [id |-> l, row |-> log[l]] \in Snapshot
    BY RowsAre DEF Snapshot
  <2> QED
    BY <1>3, <2>1 DEF MonSelect, TypeOK
<1>4. CASE MonLookUp
  <2>1. \A e \in Snapshot : job[e.row.job] \in Info
    BY DEF TypeOK, Snapshot, Row
  <2> QED
    BY <1>4, <2>1 DEF MonLookUp, TypeOK
<1>5. CASE MonRetry \/ MonUpdate
  BY <1>5, NothingTyped DEF MonRetry, MonUpdate, TypeOK
<1>6. CASE MonAlarm
  <2>1. monStatus' \in Alarm
    BY <1>6, ConstantsAssumption DEF MonAlarm, Alarm
  <2> QED
    BY <1>6, <2>1 DEF MonAlarm, TypeOK
<1> QED
  BY <1>1, <1>2, <1>3, <1>4, <1>5, <1>6 DEF Monitor

\* What a step does to the pool's queue and to the log when it is the monitor's.
LEMMA MonitorKeeps ==
  ASSUME Monitor \/ MonException
  PROVE  /\ UNCHANGED <<job, worker, exec, callbacks, fires>>
         /\ MonRetry \/ UNCHANGED <<queue, retried>>
         /\ MonUpdate \/ UNCHANGED log
         /\ MonException \/ UNCHANGED fails
BY DEF Monitor, MonSelect, MonLookUp, MonRetry, MonAlarm, MonUpdate, MonRest, MonReject,
       MonException, monKeeps, executorVars

\* A callback that is made, and one that is read.
LEMMA ExecutorTyped ==
  ASSUME TypeOK, NEW l \in DOMAIN exec, ExecutorDone(l)
  PROVE  /\ exec' \in Seq({"none", "accepted", "done"}) /\ Len(exec)' = Len(exec)
         /\ exec'[l] = "done" /\ exec[l] = "accepted"
         /\ \A k \in DOMAIN exec : k # l => exec'[k] = exec[k]
         /\ \/ UNCHANGED callbacks
            \/ \E code \in Codes :
                 callbacks' = callbacks \cup {[log |-> l, code |-> code, read |-> FALSE]}
         /\ callbacks' \subseteq Callback
<1> DEFINE E == {"none", "accepted", "done"}
<1>1. exec \in Seq(E) /\ "done" \in E /\ exec' = [exec EXCEPT ![l] = "done"]
  BY DEF TypeOK, ExecutorDone
<1>2. l \in Nat /\ callbacks \subseteq Callback
  BY RowsAre DEF TypeOK
<1>3. \/ UNCHANGED callbacks
      \/ \E code \in Codes :
           callbacks' = callbacks \cup {[log |-> l, code |-> code, read |-> FALSE]}
  BY DEF ExecutorDone, Codes
<1>4. \A code \in Codes : [log |-> l, code |-> code, read |-> FALSE] \in Callback
  BY <1>2 DEF Callback
<1>5. callbacks' \subseteq Callback
  BY <1>2, <1>3, <1>4
<1> HIDE DEF E
<1>6. /\ exec' \in Seq(E) /\ Len(exec') = Len(exec) /\ exec'[l] = "done"
      /\ \A k \in DOMAIN exec : k # l => exec'[k] = exec[k]
  BY <1>1, ExceptPlaces
<1> QED
  BY <1>3, <1>5, <1>6 DEF E, ExecutorDone

LEMMA ReadTyped ==
  ASSUME TypeOK, NEW c \in callbacks, CallbackRead(c)
  PROVE  /\ callbacks' \subseteq Callback
         /\ \/ callbacks' = callbacks \ {c}
            \/ /\ log[c.log].exec = 0
               /\ \E r \in Callback : r.log = c.log /\ callbacks' = (callbacks \ {c}) \cup {r}
<1>1. c \in Callback /\ callbacks \subseteq Callback /\ ~c.read
  BY DEF TypeOK, CallbackRead
<1> DEFINE r == [c EXCEPT !.read = TRUE]
<1>2. r \in Callback /\ r.log = c.log
  BY <1>1 DEF Callback
<1>3. \/ callbacks' = callbacks \ {c}
      \/ callbacks' = (callbacks \ {c}) \cup {r} /\ log[c.log].exec = 0
  BY DEF CallbackRead
<1> HIDE DEF r
<1> QED
  BY <1>1, <1>2, <1>3

LEMMA TypeStep == TypeOK /\ RowsOwned /\ OneCallback /\ Copies /\ [Next]_vars => TypeOK'
<1> SUFFICES ASSUME TypeOK, RowsOwned, OneCallback, Copies, [Next]_vars PROVE TypeOK'
  OBVIOUS
<1>0. CASE UNCHANGED vars
  BY <1>0 DEF TypeOK, vars, executorVars, monVars, bounds
<1>1. CASE \E w \in Workers : TriggerLookUp(w)
  <2>1. PICK w \in Workers : TriggerLookUp(w)
    BY <1>1
  <2>2. queue' \in Seq(Task) /\ worker' \in [Workers -> Worker]
    BY <2>1, LookUpWorker DEF TypeOK
  <2> QED
    BY <2>1, <2>2 DEF TypeOK, TriggerLookUp, trigKeeps, monVars
<1>2. CASE \E w \in Workers : TriggerInsert(w)
  <2>1. PICK w \in Workers : TriggerInsert(w)
    BY <1>2
  <2> QED
    BY <2>1, InsertRow, InsertWorker DEF TypeOK, TriggerInsert, trigKeeps, monVars
<1>3. CASE \E w \in Workers : TriggerSend(w) \/ TriggerReply(w)
  <2>1. PICK w \in Workers : TriggerSend(w) \/ TriggerReply(w)
    BY <1>3
  <2> QED
    BY <2>1, SendWorker DEF TypeOK, TriggerSend, TriggerReply, trigKeeps, monVars
<1>4. CASE \E w \in Workers : TriggerResult(w)
  <2>1. PICK w \in Workers : TriggerResult(w)
    BY <1>4
  <2>2. worker' = [worker EXCEPT ![w] = Idle] /\ log' \in Seq(Row) /\ Len(log)' = Len(log)
    BY <2>1, ResultRow DEF TriggerResult
  <2> QED
    BY <2>1, <2>2, IdleWorker DEF TypeOK, TriggerResult, trigKeeps, monVars
<1>5. CASE \E w \in Workers : TriggerException(w)
  <2>1. PICK w \in Workers : TriggerException(w)
    BY <1>5
  <2>2. worker' = [worker EXCEPT ![w] = Idle] /\ fails' \in Nat
    BY <2>1 DEF TriggerException, TypeOK
  <2> QED
    BY <2>1, <2>2, IdleWorker DEF TypeOK, TriggerException, trigKeeps, monVars
<1>6. CASE \E l \in DOMAIN exec : ExecutorDone(l)
  <2>1. PICK l \in DOMAIN exec : ExecutorDone(l)
    BY <1>6
  <2> QED
    BY <2>1, ExecutorTyped DEF TypeOK, ExecutorDone, monVars, bounds
<1>7. CASE \E c \in callbacks : CallbackRead(c)
  <2>1. PICK c \in callbacks : CallbackRead(c)
    BY <1>7
  <2> QED
    BY <2>1, ReadTyped DEF TypeOK, CallbackRead, monVars, bounds
<1>8. CASE \E c \in callbacks : CallbackWrite(c)
  <2>1. PICK c \in callbacks : CallbackWrite(c)
    BY <1>8
  <2> QED
    BY <2>1, CallbackRow DEF TypeOK, CallbackWrite, monVars, bounds
<1>9. CASE Monitor \/ MonException
  <2>1. log' \in Seq(Row) /\ Len(log)' = Len(log)
    BY <1>9, MonitorKeeps, AlarmRow DEF TypeOK
  <2>2. queue' \in Seq(Task) /\ retried' \subseteq Nat
    <3>1. CASE MonRetry /\ monLog.row.retry > 0
      BY <3>1, RetryTask, PushPlaces DEF MonRetry, TypeOK, Snapshot
    <3>2. CASE UNCHANGED <<queue, retried>>
      BY <3>2 DEF TypeOK
    <3> QED
      BY <1>9, <3>1, <3>2, MonitorKeeps DEF MonRetry
  <2>3. fails' \in Nat
    BY <1>9, MonitorKeeps DEF MonException, TypeOK
  <2> QED
    BY <1>9, <2>1, <2>2, <2>3, MonitorTyped, MonitorKeeps DEF TypeOK
<1>10. CASE \E j \in Jobs : Fire(j)
  <2>1. PICK j \in Jobs : Fire(j)
    BY <1>10
  <2>2. queue' \in Seq(Task) /\ fires' \in Nat
    BY <2>1, FireTask, PushPlaces DEF Fire, TypeOK
  <2> QED
    BY <2>1, <2>2 DEF TypeOK, Fire, executorVars, monVars
<1>11. CASE \E j \in Jobs : DeleteJob(j)
  <2>1. PICK j \in Jobs : DeleteJob(j)
    BY <1>11
  <2>2. job' \in [Jobs -> Info]
    BY <2>1 DEF DeleteJob, TypeOK, Info
  <2> QED
    BY <2>1, <2>2 DEF TypeOK, DeleteJob, executorVars, monVars, bounds
<1>12. CASE \E S \in SUBSET DOMAIN log : DeleteLogs(S)
  <2>1. PICK S \in SUBSET DOMAIN log : DeleteLogs(S)
    BY <1>12
  <2> QED
    BY <2>1, DeletedRows DEF TypeOK, DeleteLogs, executorVars, monVars, bounds
<1>13. CASE Restart
  <2>1. queue' \in Seq(Task) /\ worker' \in [Workers -> Worker] /\ fails' \in Nat
    BY <1>13, EmptyPlaces, NothingTyped DEF Restart, TypeOK
  <2> QED
    BY <1>13, <2>1, MonitorTyped DEF TypeOK, Restart
<1> QED
  BY <1>0, <1>1, <1>2, <1>3, <1>4, <1>5, <1>6, <1>7, <1>8, <1>9, <1>10, <1>11, <1>12, <1>13
     DEF Next, JobTrigger, Executor

-----------------------------------------------------------------------------
(* A thread of the pool and its row *)

\* Threads that keep to their rows keep them to themselves.
LEMMA RowsOwnedKept ==
  ASSUME RowsOwned,
         \A l \in DOMAIN log : l \in DOMAIN log' /\ log'[l].parent = log[l].parent,
         \A w \in Workers : Writes(w)' =>
           /\ Writes(w) /\ worker'[w].log = worker[w].log /\ worker'[w].parent = worker[w].parent
           /\ log'[worker[w].log].trigger = log[worker[w].log].trigger
           /\ worker'[w].pc = "send" =>
                worker[w].pc = "send" /\ exec'[worker[w].log] = exec[worker[w].log]
           /\ worker'[w].pc = "result" => worker'[w].code # 0
  PROVE  RowsOwned'
BY DEF RowsOwned

\* A step that moves no thread of the pool.
LEMMA RowsOwnedElsewhere ==
  ASSUME RowsOwned, SameRows, UNCHANGED worker,
         \A l \in DOMAIN log : exec[l] = "none" => exec'[l] = "none"
  PROVE  RowsOwned'
BY RowsOwnedKept DEF SameRows, RowsOwned, Writes

LEMMA RowsOwnedStep == TypeOK /\ RowsOwned /\ OneCallback /\ Copies /\ [Next]_vars => RowsOwned'
<1> SUFFICES ASSUME TypeOK, RowsOwned, OneCallback, Copies, [Next]_vars PROVE RowsOwned'
  OBVIOUS
<1>0. CASE UNCHANGED vars
  BY <1>0, LogKept, RowsOwnedElsewhere DEF vars, executorVars
<1>1. CASE \E w \in Workers : TriggerLookUp(w)
  <2>1. PICK w \in Workers : TriggerLookUp(w)
    BY <1>1
  <2>2. UNCHANGED <<log, exec>>
    BY <2>1 DEF TriggerLookUp
  <2>3. \A v \in Workers : worker'[v] = worker[v] \/ worker'[v].pc = "insert"
    BY <2>1, LookUpWorker
  <2> QED
    BY <2>2, <2>3, RowsOwnedKept DEF RowsOwned, Writes
<1>2. CASE \E w \in Workers : TriggerInsert(w)
  <2>1. PICK w \in Workers : TriggerInsert(w)
    BY <1>2
  <2>2. \A v \in Workers : v # w => /\ worker'[v] = worker[v]
                                    /\ Writes(v) => worker[v].log \in DOMAIN log
    BY <2>1, InsertWorker DEF RowsOwned
  <2>3. \A l \in DOMAIN log : log'[l] = log[l] /\ exec'[l] = exec[l] /\ l # Len(log) + 1
    BY <2>1, InsertRow
  <2>4. DOMAIN log \subseteq DOMAIN log' /\ Len(log) + 1 \in DOMAIN log'
    BY <2>1, InsertRow
  <2>5. /\ worker'[w].log \in DOMAIN log' /\ log'[worker'[w].log].trigger = 0
        /\ log'[worker'[w].log].parent = worker'[w].parent /\ worker'[w].pc = "send"
        /\ exec'[worker'[w].log] = "none" /\ worker'[w].log = Len(log) + 1
    BY <2>1, <2>4, InsertRow, InsertWorker
  <2>6. ASSUME NEW v \in Workers, Writes(v)'
        PROVE  /\ worker'[v].log \in DOMAIN log' /\ log'[worker'[v].log].trigger = 0
               /\ log'[worker'[v].log].parent = worker'[v].parent
               /\ worker'[v].pc = "send" => exec'[worker'[v].log] = "none"
               /\ worker'[v].pc = "result" => worker'[v].code # 0
               /\ worker'[v].log = Len(log) + 1 => v = w
    BY <2>2, <2>3, <2>4, <2>5, <2>6 DEF RowsOwned, Writes
  <2>7. ASSUME NEW u \in Workers, NEW v \in Workers, Writes(u)', Writes(v)',
               worker'[u].log = worker'[v].log
        PROVE  u = v
    BY <2>2, <2>5, <2>6, <2>7 DEF RowsOwned, Writes
  <2> QED
    BY <2>6, <2>7 DEF RowsOwned
<1>3. CASE \E w \in Workers : TriggerSend(w) \/ TriggerReply(w)
  <2>1. PICK w \in Workers : TriggerSend(w) \/ TriggerReply(w)
    BY <1>3
  <2>2. UNCHANGED log
    BY <2>1 DEF TriggerSend, TriggerReply
  <2>3. ASSUME NEW v \in Workers, Writes(v)'
        PROVE  /\ Writes(v) /\ worker'[v].log = worker[v].log
               /\ worker'[v].parent = worker[v].parent
               /\ worker'[v].pc = "send" =>
                    worker[v].pc = "send" /\ exec'[worker[v].log] = exec[worker[v].log]
               /\ worker'[v].pc = "result" => worker'[v].code # 0
    <3>1. CASE v = w
      BY <2>1, <3>1, SendWorker
    <3>2. CASE v # w
      <4>1. worker'[v] = worker[v] /\ Writes(w) /\ Writes(v)
        BY <2>1, <2>3, <3>2, SendWorker DEF Writes
      <4>2. worker[v].log \in DOMAIN log /\ worker[v].log # worker[w].log
        BY <4>1, <3>2 DEF RowsOwned
      <4>3. exec'[worker[v].log] = exec[worker[v].log]
        BY <2>1, <4>2, SendWorker
      <4> QED
        BY <4>1, <4>3 DEF RowsOwned
    <3> QED
      BY <3>1, <3>2
  <2> QED
    BY <2>2, <2>3, RowsOwnedKept
<1>4. CASE \E w \in Workers : TriggerResult(w)
  <2>1. PICK w \in Workers : TriggerResult(w)
    BY <1>4
  <2>2. worker' = [worker EXCEPT ![w] = Idle] /\ UNCHANGED exec /\ Writes(w)
    BY <2>1 DEF TriggerResult, Writes
  <2>3. \A v \in Workers : Writes(v)' => worker'[v] = worker[v] /\ Writes(v) /\ v # w
    BY <2>2, IdleWorker DEF Writes
  <2>4. \A v \in Workers : Writes(v)' =>
          worker[v].log \in DOMAIN log /\ worker[v].log # worker[w].log
    BY <2>2, <2>3 DEF RowsOwned
  <2>5. /\ DOMAIN log' = DOMAIN log
        /\ \A l \in DOMAIN log : /\ log'[l].parent = log[l].parent
                                 /\ l # worker[w].log => log'[l] = log[l]
    BY <2>1, ResultRow
  <2> QED
    BY <2>2, <2>3, <2>4, <2>5, RowsOwnedKept DEF RowsOwned
<1>5. CASE \E w \in Workers : TriggerException(w)
  <2>1. PICK w \in Workers : TriggerException(w)
    BY <1>5
  <2>2. worker' = [worker EXCEPT ![w] = Idle] /\ UNCHANGED <<log, exec>>
    BY <2>1 DEF TriggerException
  <2>3. \A v \in Workers : worker'[v] = worker[v] \/ worker'[v].pc = "idle"
    BY <2>2, IdleWorker
  <2> QED
    BY <2>2, <2>3, RowsOwnedKept DEF RowsOwned, Writes
<1>6. CASE \E l \in DOMAIN exec : ExecutorDone(l)
  <2>1. PICK l \in DOMAIN exec : ExecutorDone(l)
    BY <1>6
  <2>2. UNCHANGED <<log, worker>> /\ \A k \in DOMAIN log : exec[k] = "none" => exec'[k] = "none"
    BY <2>1, ExecutorTyped, RowsAre DEF ExecutorDone
  <2> QED
    BY <2>2, LogKept, RowsOwnedElsewhere
<1>7. CASE \E c \in callbacks : CallbackRead(c)
  BY <1>7, LogKept, RowsOwnedElsewhere DEF CallbackRead
<1>8. CASE \E c \in callbacks : CallbackWrite(c)
  BY <1>8, CallbackRow, RowsOwnedElsewhere DEF CallbackWrite
<1>9. CASE Monitor \/ MonException
  BY <1>9, MonitorKeeps, AlarmRow, LogKept, RowsOwnedElsewhere
<1>10. CASE \E j \in Jobs : Fire(j) \/ DeleteJob(j)
  BY <1>10, LogKept, RowsOwnedElsewhere DEF Fire, DeleteJob, executorVars
<1>11. CASE \E S \in SUBSET DOMAIN log : DeleteLogs(S)
  BY <1>11, DeletedRows, RowsOwnedElsewhere DEF DeleteLogs, executorVars
<1>12. CASE Restart
  BY <1>12, NothingTyped, RowsOwnedKept DEF Restart, RowsOwned, Writes
<1> QED
  BY <1>0, <1>1, <1>2, <1>3, <1>4, <1>5, <1>6, <1>7, <1>8, <1>9, <1>10, <1>11, <1>12
     DEF Next, JobTrigger, Executor

-----------------------------------------------------------------------------
(* A run and its callback *)

\* A step after which there is no callback that was not there, and no request more is over.
LEMMA OneCallbackKept ==
  ASSUME OneCallback, callbacks' \subseteq callbacks,
         \A l \in DOMAIN log : l \in DOMAIN log' /\ log'[l].exec = log[l].exec,
         \A l \in DOMAIN log : exec[l] = "done" => exec'[l] = "done",
         \A l \in DOMAIN log' : exec'[l] # "done" =>
           log'[l].exec = 0 \/ (l \in DOMAIN log /\ exec[l] # "done")
  PROVE  OneCallback'
BY DEF OneCallback

\* A step of neither the executor nor its callbacks.
LEMMA OneCallbackElsewhere ==
  ASSUME OneCallback, SameRows, SameResults, UNCHANGED exec, callbacks' \subseteq callbacks
  PROVE  OneCallback'
BY OneCallbackKept DEF SameRows, SameResults

LEMMA OneCallbackStep == TypeOK /\ RowsOwned /\ OneCallback /\ Copies /\ [Next]_vars => OneCallback'
<1> SUFFICES ASSUME TypeOK, RowsOwned, OneCallback, Copies, [Next]_vars PROVE OneCallback'
  OBVIOUS
<1>0. CASE UNCHANGED vars
  BY <1>0, LogKept, OneCallbackElsewhere DEF vars, executorVars
<1>1. CASE \E w \in Workers : TriggerLookUp(w) \/ TriggerException(w)
  BY <1>1, LogKept, OneCallbackElsewhere DEF TriggerLookUp, TriggerException, trigKeeps
<1>2. CASE \E w \in Workers : TriggerInsert(w)
  <2>1. PICK w \in Workers : TriggerInsert(w)
    BY <1>2
  <2>2. UNCHANGED callbacks
    BY <2>1 DEF TriggerInsert, trigKeeps
  <2>3. \A l \in DOMAIN log : l \in DOMAIN log' /\ log'[l] = log[l] /\ exec'[l] = exec[l]
    BY <2>1, InsertRow
  <2>4. \A l \in DOMAIN log' : l \in DOMAIN log \/ log'[l].exec = 0
    BY <2>1, InsertRow
  <2> QED
    BY <2>2, <2>3, <2>4, OneCallbackKept
<1>3. CASE \E w \in Workers : TriggerSend(w) \/ TriggerReply(w)
  <2>1. PICK w \in Workers : TriggerSend(w) \/ TriggerReply(w)
    BY <1>3
  <2>2. UNCHANGED <<log, callbacks>>
    BY <2>1 DEF TriggerSend, TriggerReply, trigKeeps
  <2>3. \A l \in DOMAIN log : exec'[l] = exec[l] \/ (exec[l] = "none" /\ exec'[l] = "accepted")
    BY <2>1, SendWorker
  <2> QED
    BY <2>2, <2>3, OneCallbackKept
<1>4. CASE \E w \in Workers : TriggerResult(w)
  <2>1. PICK w \in Workers : TriggerResult(w)
    BY <1>4
  <2>2. UNCHANGED <<exec, callbacks>>
    BY <2>1 DEF TriggerResult, trigKeeps
  <2>3. DOMAIN log' = DOMAIN log /\ \A l \in DOMAIN log : log'[l].exec = log[l].exec
    BY <2>1, ResultRow
  <2> QED
    BY <2>2, <2>3, OneCallbackKept
<1>6. CASE \E l \in DOMAIN exec : ExecutorDone(l)
  <2>1. PICK l \in DOMAIN exec : ExecutorDone(l)
    BY <1>6
  <2>2. /\ UNCHANGED log /\ l \in DOMAIN log /\ exec[l] # "done" /\ exec'[l] = "done"
        /\ \A k \in DOMAIN log : k # l => exec'[k] = exec[k]
    BY <2>1, ExecutorTyped, RowsAre DEF ExecutorDone
  <2>3. log[l].exec = 0 /\ \A c \in callbacks : c.log # l
    BY <2>2 DEF OneCallback
  <2>4. CASE UNCHANGED callbacks
    BY <2>2, <2>4, OneCallbackKept
  <2>5. CASE \E code \in Codes :
               callbacks' = callbacks \cup {[log |-> l, code |-> code, read |-> FALSE]}
    <3>1. PICK n : n.log = l /\ callbacks' = callbacks \cup {n}
      BY <2>5
    <3> QED
      BY <2>2, <2>3, <3>1 DEF OneCallback
  <2> QED
    BY <2>1, <2>4, <2>5, ExecutorTyped
<1>7. CASE \E c \in callbacks : CallbackRead(c)
  <2>1. PICK c \in callbacks : CallbackRead(c)
    BY <1>7
  <2>2. UNCHANGED <<log, exec>>
    BY <2>1 DEF CallbackRead
  <2>3. CASE callbacks' \subseteq callbacks
    BY <2>2, <2>3, LogKept, OneCallbackElsewhere
  <2>4. CASE \E r \in Callback : r.log = c.log /\ callbacks' = (callbacks \ {c}) \cup {r}
    BY <2>2, <2>4 DEF OneCallback
  <2> QED
    BY <2>1, <2>3, <2>4, ReadTyped
<1>8. CASE \E c \in callbacks : CallbackWrite(c)
  <2>1. PICK c \in callbacks : CallbackWrite(c)
    BY <1>8
  <2>2. callbacks' = callbacks \ {c} /\ UNCHANGED exec
    BY <2>1 DEF CallbackWrite
  <2>3. /\ DOMAIN log' = DOMAIN log /\ c.log \in DOMAIN log
        /\ \A l \in DOMAIN log : l # c.log => log'[l].exec = log[l].exec
    BY <2>1, CallbackRow DEF SameRows
  <2>4. exec[c.log] = "done" /\ \A d \in callbacks' : d.log # c.log
    BY <2>2 DEF OneCallback
  <2> QED
    BY <2>2, <2>3, <2>4 DEF OneCallback
<1>9. CASE Monitor \/ MonException
  BY <1>9, MonitorKeeps, AlarmRow, LogKept, OneCallbackElsewhere
<1>10. CASE \E j \in Jobs : Fire(j) \/ DeleteJob(j)
  BY <1>10, LogKept, OneCallbackElsewhere DEF Fire, DeleteJob, executorVars
<1>11. CASE \E S \in SUBSET DOMAIN log : DeleteLogs(S)
  BY <1>11, DeletedRows, OneCallbackElsewhere DEF DeleteLogs, executorVars
<1>12. CASE Restart
  BY <1>12, LogKept, OneCallbackElsewhere DEF Restart
<1> QED
  BY <1>0, <1>1, <1>2, <1>3, <1>4, <1>6, <1>7, <1>8, <1>9, <1>10, <1>11, <1>12
     DEF Next, JobTrigger, Executor

-----------------------------------------------------------------------------
(* What is repeated has failed, and leaves one retry less *)

\* RepeatedWith, and Repeatable, after the step.
RepeatableNext(p) == p \in DOMAIN log' /\ log'[p].trigger = Fail /\ log'[p].retry > 0
RepeatedNext(p, n) == RepeatableNext(p) /\ n = log'[p].retry - 1

LEMMA RepeatsKept ==
  ASSUME Repeats, SameRows,
         \A w \in Workers : worker'[w].pc # "idle" /\ worker'[w].parent # 0 =>
           RepeatedWith(worker'[w].parent, worker'[w].retry),
         \A i \in DOMAIN queue' : queue'[i].parent # 0 =>
           /\ RepeatedWith(queue'[i].parent, queue'[i].retry)
           /\ queue'[i].job = log[queue'[i].parent].job,
         \A l \in retried' : l \in DOMAIN log /\ log[l].trigger = Fail
  PROVE  Repeats'
BY DEF Repeats, SameRows, RepeatedWith, Repeatable

\* A step of neither the pool nor what pushes to it.
LEMMA RepeatsElsewhere ==
  ASSUME Repeats, SameRows, UNCHANGED <<worker, queue, retried>>
  PROVE  Repeats'
BY RepeatsKept DEF Repeats

LEMMA RepeatsStep == TypeOK /\ RowsOwned /\ OneCallback /\ Repeats /\ Copies /\ [Next]_vars => Repeats'
<1> SUFFICES ASSUME TypeOK, RowsOwned, OneCallback, Repeats, Copies, [Next]_vars PROVE Repeats'
  OBVIOUS
<1>0. CASE UNCHANGED vars
  BY <1>0, LogKept, RepeatsElsewhere DEF vars
<1>1. CASE \E w \in Workers : TriggerLookUp(w)
  <2>1. PICK w \in Workers : TriggerLookUp(w)
    BY <1>1
  <2>2. UNCHANGED <<log, retried>>
    BY <2>1 DEF TriggerLookUp, trigKeeps
  <2>3. \A i \in DOMAIN queue' : i + 1 \in DOMAIN queue /\ queue'[i] = queue[i + 1]
    BY <2>1, LookUpWorker
  <2>4. 1 \in DOMAIN queue /\ queue[1].parent \in Nat
    BY <2>1, LookUpWorker, TasksAre
  <2>5. queue[1].parent # 0 => RepeatedWith(queue[1].parent, queue[1].retry) /\ queue[1].retry >= 0
    <3> SUFFICES ASSUME queue[1].parent # 0
                 PROVE  RepeatedWith(queue[1].parent, queue[1].retry) /\ queue[1].retry >= 0
      OBVIOUS
    <3>1. RepeatedWith(queue[1].parent, queue[1].retry)
      BY <2>4 DEF Repeats
    <3>2. log[queue[1].parent].retry \in Nat
      BY <3>1, RowsAre, Bounds DEF RepeatedWith, Repeatable
    <3> QED
      BY <3>1, <3>2 DEF RepeatedWith, Repeatable
  <2>6. \A v \in Workers : worker'[v].pc # "idle" /\ worker'[v].parent # 0 =>
          RepeatedWith(worker'[v].parent, worker'[v].retry)
    <3>1. CASE UNCHANGED worker
      BY <3>1 DEF Repeats
    <3>2. CASE /\ worker'[w].parent = queue[1].parent
               /\ queue[1].retry >= 0 => worker'[w].retry = queue[1].retry
               /\ \A v \in Workers : v # w => worker'[v] = worker[v]
      BY <2>5, <3>2 DEF Repeats
    <3> QED
      BY <2>1, <3>1, <3>2, LookUpWorker
  <2>7. \A i \in DOMAIN queue' : queue'[i].parent # 0 =>
          /\ RepeatedWith(queue'[i].parent, queue'[i].retry)
          /\ queue'[i].job = log[queue'[i].parent].job
    BY <2>3 DEF Repeats
  <2>8. \A l \in retried' : l \in DOMAIN log /\ log[l].trigger = Fail
    BY <2>2 DEF Repeats
  <2> QED
    BY <2>2, <2>6, <2>7, <2>8, LogKept, RepeatsKept
<1>2. CASE \E w \in Workers : TriggerInsert(w)
  <2>1. PICK w \in Workers : TriggerInsert(w)
    BY <1>2
  <2>2. UNCHANGED <<queue, retried>>
    BY <2>1 DEF TriggerInsert, trigKeeps
  <2>3. DOMAIN log \subseteq DOMAIN log' /\ \A l \in DOMAIN log : log'[l] = log[l]
    BY <2>1, InsertRow
  <2>4. \A p, n : RepeatedWith(p, n) => RepeatedNext(p, n) /\ RepeatableNext(p)
    BY <2>3 DEF RepeatedWith, Repeatable, RepeatedNext, RepeatableNext
  <2>5. worker[w].pc = "insert"
        /\ \A v \in Workers : /\ worker'[v].parent = worker[v].parent
                              /\ worker'[v].retry = worker[v].retry
                              /\ worker'[v].pc # "idle" => worker[v].pc # "idle"
    BY <2>1, InsertWorker
  <2>6. \A l \in DOMAIN log' : l \in DOMAIN log
          \/ (log'[l].trigger = 0 /\ log'[l].retry = 0 /\ log'[l].parent = worker[w].parent)
    BY <2>1, InsertRow
  <2>7. /\ \A l \in DOMAIN log' : log'[l].retry > 0 => log'[l].trigger # 0
        /\ \A l \in DOMAIN log' : log'[l].parent # 0 =>
             /\ RepeatableNext(log'[l].parent)
             /\ log'[l].trigger # 0 => RepeatedNext(log'[l].parent, log'[l].retry)
    <3> SUFFICES ASSUME NEW l \in DOMAIN log'
                 PROVE  /\ log'[l].retry > 0 => log'[l].trigger # 0
                        /\ log'[l].parent # 0 =>
                             /\ RepeatableNext(log'[l].parent)
                             /\ log'[l].trigger # 0 => RepeatedNext(log'[l].parent, log'[l].retry)
      OBVIOUS
    <3>1. CASE l \in DOMAIN log
      <4>1. /\ log[l].retry > 0 => log[l].trigger # 0
            /\ log[l].parent # 0 => /\ RepeatedWith(log[l].parent, log[log[l].parent].retry - 1)
                                    /\ log[l].trigger # 0 => RepeatedWith(log[l].parent, log[l].retry)
        BY <3>1 DEF Repeats, RepeatedWith
      <4> QED
        BY <4>1, <3>1, <2>3, <2>4
    <3>2. CASE log'[l].trigger = 0 /\ log'[l].retry = 0 /\ log'[l].parent = worker[w].parent
      <4>1. worker[w].parent # 0 => RepeatedWith(worker[w].parent, worker[w].retry)
        BY <2>5 DEF Repeats
      <4> QED
        BY <4>1, <3>2, <2>4
    <3> QED
      BY <2>6, <3>1, <3>2
  <2>8. \A v \in Workers : worker'[v].pc # "idle" /\ worker'[v].parent # 0 =>
          RepeatedNext(worker'[v].parent, worker'[v].retry)
    BY <2>4, <2>5 DEF Repeats
  <2>9. \A i \in DOMAIN queue' : queue'[i].parent # 0 =>
          /\ RepeatedNext(queue'[i].parent, queue'[i].retry)
          /\ queue'[i].job = log'[queue'[i].parent].job
    BY <2>2, <2>3, <2>4 DEF Repeats, RepeatedWith, Repeatable
  <2>10. \A l \in retried' : l \in DOMAIN log' /\ log'[l].trigger = Fail
    BY <2>2, <2>3 DEF Repeats
  <2> QED
    BY <2>7, <2>8, <2>9, <2>10 DEF Repeats, RepeatedWith, Repeatable, RepeatedNext, RepeatableNext
<1>3. CASE \E w \in Workers : TriggerSend(w) \/ TriggerReply(w)
  <2>1. PICK w \in Workers : TriggerSend(w) \/ TriggerReply(w)
    BY <1>3
  <2>2. UNCHANGED <<log, queue, retried>>
    BY <2>1 DEF TriggerSend, TriggerReply, trigKeeps
  <2>3. worker[w].pc # "idle"
        /\ \A v \in Workers : /\ worker'[v].parent = worker[v].parent
                              /\ worker'[v].retry = worker[v].retry
                              /\ v # w => worker'[v] = worker[v]
    BY <2>1, SendWorker
  <2>4. \A v \in Workers : worker'[v].pc # "idle" /\ worker'[v].parent # 0 =>
          RepeatedWith(worker'[v].parent, worker'[v].retry)
    BY <2>3 DEF Repeats
  <2> QED
    BY <2>2, <2>4, LogKept, RepeatsKept DEF Repeats
<1>4. CASE \E w \in Workers : TriggerResult(w)
  <2>1. PICK w \in Workers : TriggerResult(w)
    BY <1>4
  <2> DEFINE k == worker[w].log
  <2>2. UNCHANGED <<queue, retried>> /\ Writes(w) /\ worker' = [worker EXCEPT ![w] = Idle]
    BY <2>1 DEF TriggerResult, trigKeeps, Writes
  <2>3. /\ k \in DOMAIN log /\ DOMAIN log' = DOMAIN log /\ log[k].trigger = 0
        /\ log'[k].trigger # 0 /\ log'[k].retry = worker[w].retry /\ log'[k].job = log[k].job
        /\ log'[k].parent = log[k].parent /\ \A l \in DOMAIN log : l # k => log'[l] = log[l]
    BY <2>1, ResultRow
  <2>4. log[k].parent = worker[w].parent
    BY <2>2 DEF RowsOwned
  <2> HIDE DEF k
  <2>5. \A p, n : RepeatedWith(p, n) => /\ RepeatedNext(p, n) /\ RepeatableNext(p)
                                        /\ log'[p].job = log[p].job
    BY <2>3, CodesAre DEF RepeatedWith, Repeatable, RepeatedNext, RepeatableNext
  <2>6. \A l \in DOMAIN log' : log'[l].retry > 0 => log'[l].trigger # 0
    BY <2>3 DEF Repeats
  <2>7. ASSUME NEW l \in DOMAIN log', log'[l].parent # 0
        PROVE  /\ RepeatableNext(log'[l].parent)
               /\ log'[l].trigger # 0 => RepeatedNext(log'[l].parent, log'[l].retry)
    <3>1. CASE l = k
      <4>1. RepeatedWith(worker[w].parent, worker[w].retry)
        BY <3>1, <2>2, <2>3, <2>4, <2>7 DEF Repeats, Writes
      <4> QED
        BY <4>1, <3>1, <2>3, <2>4, <2>5
    <3>2. CASE l # k
      <4>1. /\ RepeatedWith(log[l].parent, log[log[l].parent].retry - 1)
            /\ log[l].trigger # 0 => RepeatedWith(log[l].parent, log[l].retry)
            /\ log'[l] = log[l]
        BY <3>2, <2>3, <2>7 DEF Repeats, RepeatedWith
      <4> QED
        BY <4>1, <2>5
    <3> QED
      BY <3>1, <3>2
  <2>8. \A v \in Workers : worker'[v].pc # "idle" /\ worker'[v].parent # 0 =>
          RepeatedNext(worker'[v].parent, worker'[v].retry)
    <3>1. \A v \in Workers : worker'[v].pc # "idle" => worker'[v] = worker[v]
      BY <2>2, IdleWorker
    <3> QED
      BY <3>1, <2>5 DEF Repeats
  <2>9. \A i \in DOMAIN queue' : queue'[i].parent # 0 =>
          /\ RepeatedNext(queue'[i].parent, queue'[i].retry)
          /\ queue'[i].job = log'[queue'[i].parent].job
    BY <2>2, <2>5 DEF Repeats
  <2>10. \A l \in retried' : l \in DOMAIN log' /\ log'[l].trigger = Fail
    BY <2>2, <2>3, CodesAre DEF Repeats
  <2> QED
    BY <2>6, <2>7, <2>8, <2>9, <2>10 DEF Repeats, RepeatedWith, Repeatable, RepeatedNext, RepeatableNext
<1>5. CASE \E w \in Workers : TriggerException(w)
  <2>1. PICK w \in Workers : TriggerException(w)
    BY <1>5
  <2>2. worker' = [worker EXCEPT ![w] = Idle] /\ UNCHANGED <<log, queue, retried>>
    BY <2>1 DEF TriggerException, trigKeeps
  <2>3. \A v \in Workers : worker'[v].pc # "idle" => worker'[v] = worker[v]
    BY <2>2, IdleWorker
  <2> QED
    BY <2>2, <2>3, LogKept, RepeatsKept DEF Repeats
<1>6. CASE \E l \in DOMAIN exec : ExecutorDone(l)
  BY <1>6, LogKept, RepeatsElsewhere DEF ExecutorDone
<1>7. CASE \E c \in callbacks : CallbackRead(c)
  BY <1>7, LogKept, RepeatsElsewhere DEF CallbackRead
<1>8. CASE \E c \in callbacks : CallbackWrite(c)
  BY <1>8, CallbackRow, RepeatsElsewhere DEF CallbackWrite
<1>9. CASE Monitor \/ MonException
  <2>1. CASE MonRetry /\ monLog.row.retry > 0
    <3> DEFINE t == [job |-> monLog.row.job, retry |-> monLog.row.retry - 1, parent |-> monLog.id]
    <3>1. Push(t) /\ retried' = retried \cup {monLog.id} /\ UNCHANGED <<log, worker>>
      BY <2>1 DEF MonRetry, monKeeps
    <3>2. /\ t \in Task /\ t.parent = monLog.id /\ t.retry = monLog.row.retry - 1
          /\ t.job = monLog.row.job
      BY <2>1, RetryTask
    <3> HIDE DEF t
    <3>3. monLog \in Selected
      BY <2>1 DEF MonRetry, Selected
    <3>4. /\ RepeatedWith(t.parent, t.retry) /\ t.job = log[t.parent].job
          /\ monLog.id \in DOMAIN log /\ log[monLog.id].trigger = Fail
      BY <2>1, <3>2, <3>3 DEF Copies, RepeatedWith, Repeatable
    <3>5. \A i \in DOMAIN queue' : queue'[i] = t \/ (i \in DOMAIN queue /\ queue'[i] = queue[i])
      BY <3>1, <3>2, PushPlaces
    <3>6. \A i \in DOMAIN queue' : queue'[i].parent # 0 =>
            /\ RepeatedWith(queue'[i].parent, queue'[i].retry)
            /\ queue'[i].job = log[queue'[i].parent].job
      BY <3>4, <3>5 DEF Repeats
    <3>7. \A v \in Workers : worker'[v].pc # "idle" /\ worker'[v].parent # 0 =>
            RepeatedWith(worker'[v].parent, worker'[v].retry)
      BY <3>1 DEF Repeats
    <3>8. \A l \in retried' : l \in DOMAIN log /\ log[l].trigger = Fail
      BY <3>1, <3>4 DEF Repeats
    <3> QED
      BY <3>1, <3>6, <3>7, <3>8, LogKept, RepeatsKept
  <2>2. CASE UNCHANGED <<queue, retried>>
    BY <1>9, <2>2, MonitorKeeps, AlarmRow, LogKept, RepeatsElsewhere
  <2> QED
    BY <1>9, <2>1, <2>2, MonitorKeeps DEF MonRetry
<1>10. CASE \E j \in Jobs : Fire(j)
  <2>1. PICK j \in Jobs : Fire(j)
    BY <1>10
  <2> DEFINE t == [job |-> j, retry |-> -1, parent |-> 0]
  <2>2. UNCHANGED <<log, worker, retried>> /\ Push(t)
    BY <2>1 DEF Fire
  <2>3. t \in Task /\ t.parent = 0
    BY FireTask
  <2> HIDE DEF t
  <2>4. \A i \in DOMAIN queue' : queue'[i] = t \/ (i \in DOMAIN queue /\ queue'[i] = queue[i])
    BY <2>2, <2>3, PushPlaces
  <2> QED
    BY <2>2, <2>3, <2>4, LogKept, RepeatsKept DEF Repeats
<1>11. CASE \E j \in Jobs : DeleteJob(j)
  BY <1>11, LogKept, RepeatsElsewhere DEF DeleteJob
<1>12. CASE \E S \in SUBSET DOMAIN log : DeleteLogs(S)
  BY <1>12, DeletedRows, RepeatsElsewhere DEF DeleteLogs
<1>13. CASE Restart
  <2>1. /\ UNCHANGED <<log, retried>> /\ queue' = << >>
        /\ \A w \in Workers : worker'[w].pc = "idle"
    BY <1>13, NothingTyped DEF Restart
  <2> QED
    BY <2>1, LogKept, EmptyPlaces, RepeatsKept DEF Repeats
<1> QED
  BY <1>0, <1>1, <1>2, <1>3, <1>4, <1>5, <1>6, <1>7, <1>8, <1>9, <1>10, <1>11, <1>12, <1>13
     DEF Next, JobTrigger, Executor

-----------------------------------------------------------------------------
(* The monitor's copies of rows *)

\* A failed run keeps its retries, whatever becomes of its row.
CopiesStand ==
  \A l \in DOMAIN log : /\ l \in DOMAIN log' /\ log'[l].job = log[l].job
                        /\ Repeatable(l) => log'[l].trigger = Fail /\ log'[l].retry = log[l].retry

\* A step that is not the monitor's.
LEMMA CopiesKept ==
  ASSUME Copies, CopiesStand, UNCHANGED <<monPc, monLogs, monLog, monInfo, monStatus>>,
         \A j : job'[j].there => job[j].there
  PROVE  Copies'
BY DEF Copies, CopiesStand, Selected, Repeatable

LEMMA CopiesElsewhere ==
  ASSUME Copies, SameRows, UNCHANGED <<job, monPc, monLogs, monLog, monInfo, monStatus>>
  PROVE  Copies'
BY CopiesKept DEF CopiesStand, SameRows, Repeatable

\* A step of the monitor that selects nothing more.
LEMMA CopiesSelected ==
  ASSUME Copies, SameRows, Selected' \subseteq Selected,
         monPc' \in {"retry", "alarm", "update"} => monLog' \notin monLogs',
         monPc' \in {"retry", "alarm"} /\ job'[monLog'.row.job].there => monInfo'.there,
         monPc' = "update" => monStatus' # "DEFAULT",
         monPc' = "sleep" => monLogs' = {}
  PROVE  Copies'
<1>1. \A e \in Selected' :
        /\ e.id \in DOMAIN log' /\ e.row.job = log'[e.id].job
        /\ e.row.retry > 0 => Repeatable(e.id)' /\ log'[e.id].retry = e.row.retry
  BY DEF Copies, SameRows, Repeatable
<1>2. \A e, f \in Selected' : e.id = f.id => e = f
  BY DEF Copies
<1> QED
  BY <1>1, <1>2 DEF Copies

LEMMA MonitorCopies ==
  ASSUME TypeOK, Repeats, Copies, Monitor \/ MonException \/ (MonReset /\ UNCHANGED log)
  PROVE  Copies'
<1>1. CASE MonReset /\ UNCHANGED log
  <2>1. monPc' = "sleep" /\ monLogs' = {}
    BY <1>1 DEF MonReset
  <2>2. Selected' = {}
    BY <2>1 DEF Selected
  <2> QED
    BY <1>1, <2>1, <2>2, LogKept, CopiesSelected
<1>2. CASE MonRest \/ MonReject \/ MonException
  <2>1. MonReset /\ UNCHANGED log
    BY <1>2 DEF MonRest, MonReject, MonException
  <2> QED
    BY <1>1, <2>1
<1>3. CASE MonSelect
  <2>1. /\ UNCHANGED log /\ monPc' = "logs"
        /\ monLogs' = {[id |-> l, row |-> log[l]] : l \in {k \in DOMAIN log : NeedsAlarm(log[k])}}
    BY <1>3 DEF MonSelect
  <2>2. Selected' = {[id |-> l, row |-> log[l]] : l \in {k \in DOMAIN log : NeedsAlarm(log[k])}}
    BY <2>1 DEF Selected
  <2>3. ASSUME NEW e \in Selected'
        PROVE  /\ e.id \in DOMAIN log /\ e.row = log[e.id] /\ e = [id |-> e.id, row |-> log[e.id]]
               /\ e.row.retry > 0 => Repeatable(e.id)
    <3>1. PICK l \in DOMAIN log : NeedsAlarm(log[l]) /\ e = [id |-> l, row |-> log[l]]
      BY <2>2
    <3>2. log[l].retry > 0 => log[l].trigger # 0
      BY DEF Repeats
    <3>3. log[l].trigger \in Codes /\ log[l].trigger # Success
      BY <3>1, RowsAre DEF NeedsAlarm
    <3> QED
      BY <3>1, <3>2, <3>3 DEF Codes, Repeatable
  <2>4. \A e \in Selected' : Repeatable(e.id) => Repeatable(e.id)'
    BY <2>1 DEF Repeatable
  <2>5. \A e, f \in Selected' : e.id = f.id => e = f
    BY <2>3
  <2>6. \A e \in Selected' :
          /\ e.id \in DOMAIN log' /\ e.row.job = log'[e.id].job
          /\ e.row.retry > 0 => Repeatable(e.id)' /\ log'[e.id].retry = e.row.retry
    BY <2>1, <2>3, <2>4
  <2> QED
    BY <2>1, <2>5, <2>6 DEF Copies
<1>4. CASE MonLookUp
  <2>1. PICK e \in monLogs : /\ monLog' = e /\ monLogs' = monLogs \ {e}
                             /\ monInfo' = job[e.row.job]
    BY <1>4 DEF MonLookUp
  <2>2. UNCHANGED <<log, job>> /\ monPc' = "retry"
    BY <1>4 DEF MonLookUp, monKeeps
  <2>3. Selected' \subseteq Selected
    BY <2>1 DEF Selected
  <2> QED
    BY <2>1, <2>2, <2>3, LogKept, CopiesSelected
<1>5. CASE MonRetry \/ MonAlarm
  <2>1. /\ UNCHANGED <<log, job, monLogs, monLog, monInfo>> /\ monPc \in {"retry", "alarm"}
        /\ monPc' = "alarm" \/ (monPc' = "update" /\ monStatus' # "DEFAULT")
    BY <1>5, ConstantsAssumption DEF MonRetry, MonAlarm, monKeeps
  <2>2. Selected' = Selected
    BY <2>1 DEF Selected
  <2> QED
    BY <2>1, <2>2, LogKept, CopiesSelected DEF Copies
<1>6. CASE MonUpdate
  <2>1. monPc' = "logs" /\ UNCHANGED monLogs /\ SameRows
    BY <1>6, AlarmRow DEF MonUpdate
  <2>2. Selected' \subseteq Selected
    BY <2>1 DEF Selected
  <2> QED
    BY <2>1, <2>2, CopiesSelected
<1> QED
  BY <1>1, <1>2, <1>3, <1>4, <1>5, <1>6 DEF Monitor

LEMMA CopiesStep == TypeOK /\ RowsOwned /\ OneCallback /\ Repeats /\ Copies /\ [Next]_vars => Copies'
<1> SUFFICES ASSUME TypeOK, RowsOwned, OneCallback, Repeats, Copies, [Next]_vars PROVE Copies'
  OBVIOUS
<1>0. CASE UNCHANGED vars
  BY <1>0, LogKept, CopiesElsewhere DEF vars, monVars
<1>1. CASE \E w \in Workers : TriggerLookUp(w) \/ TriggerSend(w) \/ TriggerReply(w)
                                \/ TriggerException(w)
  BY <1>1, LogKept, CopiesElsewhere DEF TriggerLookUp, TriggerSend, TriggerReply,
     TriggerException, trigKeeps, monVars
<1>2. CASE \E w \in Workers : TriggerInsert(w)
  <2>1. PICK w \in Workers : TriggerInsert(w)
    BY <1>2
  <2>2. DOMAIN log \subseteq DOMAIN log' /\ \A l \in DOMAIN log : log'[l] = log[l]
    BY <2>1, InsertRow
  <2>3. CopiesStand
    BY <2>2 DEF CopiesStand, Repeatable
  <2> QED
    BY <2>1, <2>3, CopiesKept DEF TriggerInsert, trigKeeps, monVars
<1>3. CASE \E w \in Workers : TriggerResult(w)
  <2>1. PICK w \in Workers : TriggerResult(w)
    BY <1>3
  <2>2. /\ DOMAIN log' = DOMAIN log /\ log[worker[w].log].trigger # Fail
        /\ log'[worker[w].log].job = log[worker[w].log].job
        /\ \A l \in DOMAIN log : l # worker[w].log => log'[l] = log[l]
    BY <2>1, ResultRow, CodesAre
  <2>3. CopiesStand
    BY <2>2 DEF CopiesStand, Repeatable
  <2> QED
    BY <2>1, <2>3, CopiesKept DEF TriggerResult, trigKeeps, monVars
<1>4. CASE \E l \in DOMAIN exec : ExecutorDone(l)
  BY <1>4, LogKept, CopiesElsewhere DEF ExecutorDone, monVars
<1>5. CASE \E c \in callbacks : CallbackRead(c)
  BY <1>5, LogKept, CopiesElsewhere DEF CallbackRead, monVars
<1>6. CASE \E c \in callbacks : CallbackWrite(c)
  BY <1>6, CallbackRow, CopiesElsewhere DEF CallbackWrite, monVars
<1>7. CASE Monitor \/ MonException
  BY <1>7, MonitorCopies
<1>8. CASE \E j \in Jobs : Fire(j)
  BY <1>8, LogKept, CopiesElsewhere DEF Fire, monVars
<1>9. CASE \E j \in Jobs : DeleteJob(j)
  <2>1. PICK j \in Jobs : DeleteJob(j)
    BY <1>9
  <2>2. UNCHANGED <<log, monPc, monLogs, monLog, monInfo, monStatus>>
    BY <2>1 DEF DeleteJob, monVars
  <2>3. \A i \in Jobs : job'[i].there => job[i].there
    BY <2>1 DEF DeleteJob, TypeOK, Info
  <2>4. monLog.row.job \in Jobs
    BY DEF TypeOK, Snapshot, Row
  <2> QED
    BY <2>2, <2>3, <2>4 DEF Copies, Selected, Repeatable
<1>10. CASE \E S \in SUBSET DOMAIN log : DeleteLogs(S)
  BY <1>10, DeletedRows, CopiesElsewhere DEF DeleteLogs, monVars
<1>11. CASE Restart
  BY <1>11, MonitorCopies DEF Restart
<1> QED
  BY <1>0, <1>1, <1>2, <1>3, <1>4, <1>5, <1>6, <1>7, <1>8, <1>9, <1>10, <1>11
     DEF Next, JobTrigger, Executor

-----------------------------------------------------------------------------
(* What repeats a run is in one place *)

\* Where it is after the step.
QueuedNext(p)    == \E i \in DOMAIN queue' : queue'[i].parent = p
InsertingNext(p) == \E w \in Workers : worker'[w].pc = "insert" /\ worker'[w].parent = p
InsertedNext(p)  == \E l \in DOMAIN log' : log'[l].parent = p
PlannedNext(p)   == QueuedNext(p) \/ InsertingNext(p) \/ InsertedNext(p)
JobThereNext(l)  == job'[log'[l].job].there

\* What is repeated has a row.
LEMMA PlannedHasRow ==
  ASSUME TypeOK, Repeats, NEW p, Planned(p), p # 0
  PROVE  Repeatable(p)
<1>1. CASE Queued(p)
  BY <1>1 DEF Repeats, Queued, RepeatedWith
<1>2. CASE Inserting(p)
  BY <1>2 DEF Repeats, Inserting, RepeatedWith
<1>3. CASE Inserted(p)
  BY <1>3 DEF Repeats, Inserted
<1> QED
  BY <1>1, <1>2, <1>3 DEF Planned

\* A step that takes no run to be repeated, and inserts none.
LEMMA OnePlaceKept ==
  ASSUME OnePlace, DOMAIN log' = DOMAIN log, \A l \in DOMAIN log : log'[l].parent = log[l].parent,
         \A w \in Workers : worker'[w].pc = "insert" =>
           worker[w].pc = "insert" /\ worker'[w].parent = worker[w].parent
  PROVE  OnePlace'
BY DEF OnePlace, Inserting, Inserted

LEMMA OnePlaceStep ==
  TypeOK /\ RowsOwned /\ OneCallback /\ Repeats /\ Copies /\ OnePlace /\ OnePush /\ [Next]_vars
    /\ fails' = 0 => OnePlace'
<1> SUFFICES ASSUME TypeOK, RowsOwned, OneCallback, Repeats, Copies, OnePlace, OnePush,
                    [Next]_vars, fails' = 0
             PROVE  OnePlace'
  OBVIOUS
<1>0. CASE UNCHANGED vars
  BY <1>0, OnePlaceKept DEF vars
<1>1. CASE \E w \in Workers : TriggerLookUp(w)
  <2>1. PICK w \in Workers : TriggerLookUp(w)
    BY <1>1
  <2>2. UNCHANGED log
    BY <2>1 DEF TriggerLookUp
  <2>3. CASE UNCHANGED worker
    BY <2>2, <2>3, OnePlaceKept
  <2>4. CASE /\ worker'[w].pc = "insert" /\ job[queue[1].job].there
             /\ worker'[w].parent = queue[1].parent
             /\ \A v \in Workers : v # w => worker'[v] = worker[v]
    <3> DEFINE p == queue[1].parent
    <3>1. 1 \in DOMAIN queue /\ p \in Nat
      BY <2>1, LookUpWorker, TasksAre
    <3>2. p # 0 => p \in DOMAIN log /\ queue[1].job = log[p].job
      BY <3>1 DEF Repeats, RepeatedWith, Repeatable
    <3>3. p # 0 => ~Inserting(p) /\ ~Inserted(p)
      BY <3>1, <3>2, <2>4 DEF OnePush, JobThere, Queued
    <3>4. DOMAIN log = 1..Len(log) /\ Len(log) \in Nat
      BY RowsAre
    <3> HIDE DEF p
    <3>5. ASSUME NEW u \in Workers, NEW v \in Workers,
                 worker'[u].pc = "insert", worker'[v].pc = "insert",
                 worker'[u].parent = worker'[v].parent, worker'[u].parent # 0
          PROVE  u = v
      BY <2>4, <3>3, <3>5 DEF OnePlace, Inserting, p
    <3>6. ASSUME NEW q \in DOMAIN log, InsertingNext(q), InsertedNext(q)
          PROVE  FALSE
      <4>1. Inserted(q) /\ (Inserting(q) \/ q = p) /\ q # 0
        BY <2>2, <2>4, <3>4, <3>6 DEF InsertingNext, InsertedNext, Inserting, Inserted, p
      <4> QED
        BY <4>1, <3>3 DEF OnePlace
    <3> QED
      BY <2>2, <3>5, <3>6 DEF OnePlace, Inserting, Inserted, InsertingNext, InsertedNext
  <2> QED
    BY <2>1, <2>3, <2>4, LookUpWorker
<1>2. CASE \E w \in Workers : TriggerInsert(w)
  <2>1. PICK w \in Workers : TriggerInsert(w)
    BY <1>2
  <2> DEFINE p == worker[w].parent
  <2>2. /\ worker[w].pc = "insert"
        /\ \A v \in Workers : worker'[v].pc = "insert" => worker'[v] = worker[v] /\ v # w
    BY <2>1, InsertWorker
  <2>3. /\ DOMAIN log \subseteq DOMAIN log' /\ \A l \in DOMAIN log : log'[l] = log[l]
        /\ \A l \in DOMAIN log' : l \in DOMAIN log \/ (l = Len(log) + 1 /\ log'[l].parent = p)
        /\ Len(log) + 1 \notin DOMAIN log /\ Len(log) + 1 # 0
    BY <2>1, InsertRow
  <2>4. p # 0 => p \in DOMAIN log /\ Inserting(p) /\ ~Inserted(p)
    BY <2>2 DEF Repeats, RepeatedWith, Repeatable, OnePlace, Inserting
  <2> HIDE DEF p
  <2>5. ASSUME NEW l \in DOMAIN log', NEW m \in DOMAIN log',
               log'[l].parent = log'[m].parent, log'[l].parent # 0
        PROVE  l = m
    BY <2>3, <2>4, <2>5 DEF OnePlace, Inserted
  <2>6. ASSUME NEW u \in Workers, NEW v \in Workers,
               worker'[u].pc = "insert", worker'[v].pc = "insert",
               worker'[u].parent = worker'[v].parent, worker'[u].parent # 0
        PROVE  u = v
    BY <2>2, <2>6 DEF OnePlace
  <2>7. ASSUME NEW q \in DOMAIN log', InsertingNext(q), InsertedNext(q)
        PROVE  FALSE
    <3>1. PICK v \in Workers : worker[v].pc = "insert" /\ worker[v].parent = q /\ v # w
      BY <2>2, <2>7 DEF InsertingNext
    <3>2. q # 0
      BY <2>1, InsertRow
    <3>3. q \in DOMAIN log
      BY <3>1, <3>2 DEF Repeats, RepeatedWith, Repeatable
    <3>4. Inserted(q) \/ q = p
      BY <2>3, <2>7 DEF InsertedNext, Inserted
    <3>5. q # p
      BY <3>1, <3>2, <2>2 DEF OnePlace, p
    <3> QED
      BY <3>1, <3>3, <3>4, <3>5 DEF OnePlace, Inserting
  <2> QED
    BY <2>5, <2>6, <2>7 DEF OnePlace, Inserting, Inserted, InsertingNext, InsertedNext
<1>3. CASE \E w \in Workers : TriggerSend(w) \/ TriggerReply(w)
  <2>1. PICK w \in Workers : TriggerSend(w) \/ TriggerReply(w)
    BY <1>3
  <2>2. UNCHANGED log /\ worker'[w].pc # "insert"
        /\ \A v \in Workers : v # w => worker'[v] = worker[v]
    BY <2>1, SendWorker DEF TriggerSend, TriggerReply
  <2> QED
    BY <2>2, OnePlaceKept
<1>4. CASE \E w \in Workers : TriggerResult(w)
  <2>1. PICK w \in Workers : TriggerResult(w)
    BY <1>4
  <2>2. /\ worker' = [worker EXCEPT ![w] = Idle] /\ DOMAIN log' = DOMAIN log
        /\ \A l \in DOMAIN log : log'[l].parent = log[l].parent
    BY <2>1, ResultRow DEF TriggerResult
  <2>3. worker'[w].pc = "idle" /\ \A v \in Workers : v # w => worker'[v] = worker[v]
    BY <2>2, IdleWorker
  <2> QED
    BY <2>2, <2>3, OnePlaceKept
<1>5. CASE MonException \/ Restart \/ \E w \in Workers : TriggerException(w)
  BY <1>5 DEF MonException, Restart, TriggerException, TypeOK
<1>6. CASE \E l \in DOMAIN exec : ExecutorDone(l)
  BY <1>6, OnePlaceKept DEF ExecutorDone
<1>7. CASE \E c \in callbacks : CallbackRead(c)
  BY <1>7, OnePlaceKept DEF CallbackRead
<1>8. CASE \E c \in callbacks : CallbackWrite(c)
  BY <1>8, CallbackRow, OnePlaceKept DEF CallbackWrite, SameRows
<1>9. CASE Monitor
  BY <1>9, MonitorKeeps, AlarmRow, OnePlaceKept DEF SameRows
<1>10. CASE \E j \in Jobs : Fire(j) \/ DeleteJob(j)
  BY <1>10, OnePlaceKept DEF Fire, DeleteJob
<1>11. CASE \E S \in SUBSET DOMAIN log : DeleteLogs(S)
  BY <1>11, DeletedRows, OnePlaceKept DEF DeleteLogs, SameRows
<1> QED
  BY <1>0, <1>1, <1>2, <1>3, <1>4, <1>5, <1>6, <1>7, <1>8, <1>9, <1>10, <1>11
     DEF Next, JobTrigger, Executor

\* OnePush after a step, in those terms.
LEMMA OnePushNext ==
  ASSUME \A i, k \in DOMAIN queue' :
           queue'[i].parent = queue'[k].parent /\ queue'[i].parent # 0
             /\ JobThereNext(queue'[i].parent) => i = k,
         \A p \in DOMAIN log' :
           JobThereNext(p) /\ QueuedNext(p) => ~InsertingNext(p) /\ ~InsertedNext(p),
         \A e \in Unpushed' : e.row.retry > 0 /\ JobThereNext(e.id) => ~PlannedNext(e.id),
         \A p \in DOMAIN log' : PlannedNext(p) /\ JobThereNext(p) /\ log'[p].there =>
           log'[p].alarm # "DEFAULT" \/ (monPc' \in {"alarm", "update"} /\ monLog'.id = p)
  PROVE  OnePush'
<1>1. \A p \in DOMAIN log' :
        (JobThere(p) /\ Queued(p) => ~Inserting(p) /\ ~Inserted(p))'
  BY DEF JobThere, Queued, Inserting, Inserted, JobThereNext, QueuedNext, InsertingNext, InsertedNext
<1>2. \A e \in Unpushed' : (e.row.retry > 0 /\ JobThere(e.id) => ~Planned(e.id))'
  BY DEF JobThere, Planned, Queued, Inserting, Inserted, JobThereNext, PlannedNext, QueuedNext,
         InsertingNext, InsertedNext
<1>3. \A p \in DOMAIN log' : (Planned(p) /\ JobThere(p) /\ log[p].there =>
        log[p].alarm # "DEFAULT" \/ (monPc \in {"alarm", "update"} /\ monLog.id = p))'
  BY DEF JobThere, Planned, Queued, Inserting, Inserted, JobThereNext, PlannedNext, QueuedNext,
         InsertingNext, InsertedNext
<1> QED
  BY <1>1, <1>2, <1>3 DEF OnePush, JobThere, JobThereNext

\* A step after which no more is planned.
LEMMA OnePushKept ==
  ASSUME TypeOK, Repeats, Copies, OnePush, UNCHANGED <<queue, monPc, monLogs, monLog>>,
         DOMAIN log' = DOMAIN log,
         \A p \in DOMAIN log : /\ InsertingNext(p) => Inserting(p)
                               /\ InsertedNext(p) => Inserted(p)
                               /\ JobThereNext(p) => JobThere(p),
         \A p \in DOMAIN log : Repeatable(p) /\ log'[p].there =>
           log[p].there /\ (log'[p].alarm = "DEFAULT" => log[p].alarm = "DEFAULT")
  PROVE  OnePush'
<1>1. \A i \in DOMAIN queue : queue[i].parent # 0 => queue[i].parent \in DOMAIN log
  BY DEF Repeats, RepeatedWith, Repeatable
<1>2. Unpushed' = Unpushed /\ \A e \in Unpushed : e.id \in DOMAIN log
  BY DEF Unpushed, Copies, Selected
<1>3. \A p : QueuedNext(p) => Queued(p)
  BY DEF QueuedNext, Queued
<1>4. \A p \in DOMAIN log : PlannedNext(p) => Planned(p) /\ Repeatable(p)
  <2>1. \A p \in DOMAIN log : p # 0
    BY RowsAre
  <2> QED
    BY <1>3, <2>1, PlannedHasRow DEF PlannedNext, Planned
<1> QED
  BY <1>1, <1>2, <1>3, <1>4, OnePushNext DEF OnePush

\* A step that moves nothing of the pool, and neither the monitor's list.
LEMMA OnePushElsewhere ==
  ASSUME TypeOK, Repeats, Copies, OnePush, SameRows, RowsAge,
         UNCHANGED <<worker, queue, monPc, monLogs, monLog>>,
         \A j \in Jobs : job'[j].there => job[j].there
  PROVE  OnePush'
<1>1. \A p \in DOMAIN log : log'[p].job = log[p].job /\ log[p].job \in Jobs
  BY RowsAre DEF SameRows
<1>2. \A p \in DOMAIN log : JobThereNext(p) => JobThere(p)
  BY <1>1 DEF JobThereNext, JobThere
<1>3. \A p : (InsertingNext(p) => Inserting(p)) /\ (InsertedNext(p) => Inserted(p))
  BY DEF SameRows, InsertingNext, Inserting, InsertedNext, Inserted
<1> QED
  BY <1>2, <1>3, OnePushKept DEF SameRows, RowsAge

\* A step of the monitor that pushes nothing.
LEMMA OnePushMonitor ==
  ASSUME TypeOK, Repeats, Copies, OnePush, SameRows, UNCHANGED <<worker, queue, job>>,
         \A e \in Unpushed' : e \in Unpushed \/ (e.row.retry > 0 /\ JobThere(e.id) => ~Planned(e.id)),
         \A p \in DOMAIN log : Planned(p) /\ JobThere(p) /\ log'[p].there =>
           log'[p].alarm # "DEFAULT" \/ (monPc' \in {"alarm", "update"} /\ monLog'.id = p),
         \A e \in Unpushed' : e.id \in DOMAIN log
  PROVE  OnePush'
<1>1. \A p \in DOMAIN log : JobThereNext(p) = JobThere(p)
  BY DEF JobThereNext, JobThere, SameRows
<1>2. \A p : /\ QueuedNext(p) => Queued(p)
             /\ InsertingNext(p) => Inserting(p)
             /\ InsertedNext(p) => Inserted(p)
  BY DEF SameRows, QueuedNext, Queued, InsertingNext, Inserting, InsertedNext, Inserted
<1>3. \A p : PlannedNext(p) => Planned(p)
  BY <1>2 DEF PlannedNext, Planned
<1>4. \A i \in DOMAIN queue : queue[i].parent # 0 => queue[i].parent \in DOMAIN log
  BY DEF Repeats, RepeatedWith, Repeatable
<1>5. DOMAIN log' = DOMAIN log
  BY DEF SameRows
<1> QED
  BY <1>1, <1>2, <1>3, <1>4, <1>5, OnePushNext DEF OnePush

LEMMA MonitorPush ==
  ASSUME TypeOK, Repeats, Copies, OnePush, Monitor
  PROVE  OnePush'
<1>0. UNCHANGED <<worker, job>>
  BY MonitorKeeps
<1>1. \A p \in DOMAIN log : p # 0 /\ (Planned(p) => Repeatable(p))
  BY RowsAre, PlannedHasRow
<1>2. CASE MonSelect
  <2>1. /\ UNCHANGED <<log, queue>> /\ monPc = "sleep" /\ monPc' = "logs"
        /\ monLogs' = {[id |-> l, row |-> log[l]] : l \in {k \in DOMAIN log : NeedsAlarm(log[k])}}
    BY <1>2 DEF MonSelect
  <2>2. \A e \in Unpushed' : /\ e.id \in DOMAIN log
                             /\ log[e.id].there /\ log[e.id].alarm = "DEFAULT"
    BY <2>1 DEF Unpushed, NeedsAlarm
  <2>3. \A p \in DOMAIN log : Planned(p) /\ JobThere(p) /\ log[p].there => log[p].alarm # "DEFAULT"
    BY <2>1 DEF OnePush
  <2>4. \A e \in Unpushed' : JobThere(e.id) => ~Planned(e.id)
    BY <2>2, <2>3
  <2> QED
    BY <1>0, <2>1, <2>2, <2>3, <2>4, LogKept, OnePushMonitor
<1>3. CASE MonLookUp \/ MonAlarm \/ MonRest \/ MonReject
  <2>1. UNCHANGED <<log, queue>> /\ SameRows
    BY <1>3, LogKept DEF MonLookUp, MonAlarm, MonRest, MonReject
  <2>2. Unpushed' \subseteq Unpushed /\ \A e \in Unpushed' : e.id \in DOMAIN log
    <3>1. Unpushed' \subseteq Unpushed
      BY <1>3 DEF MonLookUp, MonAlarm, MonRest, MonReject, MonReset, Unpushed
    <3>2. \A e \in Unpushed : e.id \in DOMAIN log
      BY DEF Copies, Selected, Unpushed
    <3> QED
      BY <3>1, <3>2
  <2>3. ASSUME NEW p \in DOMAIN log, Planned(p), JobThere(p), log[p].there,
               log[p].alarm = "DEFAULT"
        PROVE  monPc' \in {"alarm", "update"} /\ monLog'.id = p
    <3>1. monPc \in {"alarm", "update"} /\ monLog.id = p
      BY <2>3 DEF OnePush
    <3>2. monLog \in Selected
      BY <3>1 DEF Selected
    <3>3. monLog.row.job = log[p].job
      BY <3>1, <3>2 DEF Copies
    <3>4. monPc = "alarm" => monInfo.there
      BY <2>3, <3>3 DEF Copies, JobThere
    <3> QED
      BY <1>3, <3>1, <3>4 DEF MonLookUp, MonAlarm, MonRest, MonReject
  <2> QED
    BY <1>0, <2>1, <2>2, <2>3, OnePushMonitor
<1>4. CASE MonUpdate
  <2>1. /\ UNCHANGED queue /\ monPc = "update" /\ monPc' = "logs" /\ UNCHANGED monLogs
        /\ SameRows /\ RowsAge
        /\ log'[monLog.id].there => log'[monLog.id].alarm # "DEFAULT"
    BY <1>4, AlarmRow DEF MonUpdate
  <2>2. Unpushed' = Unpushed /\ \A e \in Unpushed : e.id \in DOMAIN log
    BY <2>1 DEF Unpushed, Copies, Selected
  <2>3. ASSUME NEW p \in DOMAIN log, Planned(p), JobThere(p), log'[p].there
        PROVE  log'[p].alarm # "DEFAULT"
    <3>1. log[p].alarm # "DEFAULT" \/ monLog.id = p
      BY <2>1, <2>3 DEF OnePush, RowsAge
    <3> QED
      BY <3>1, <2>1, <2>3 DEF RowsAge
  <2> QED
    BY <1>0, <2>1, <2>2, <2>3, OnePushMonitor
<1>5. CASE MonRetry /\ ~(monLog.row.retry > 0)
  <2>1. /\ UNCHANGED <<log, queue, monLogs>> /\ monPc = "retry" /\ monPc' = "alarm" /\ SameRows
    BY <1>5, LogKept DEF MonRetry
  <2>2. Unpushed' \subseteq Unpushed /\ \A e \in Unpushed : e.id \in DOMAIN log
    BY <2>1 DEF Unpushed, Copies, Selected
  <2>3. \A p \in DOMAIN log : Planned(p) /\ JobThere(p) /\ log[p].there => log[p].alarm # "DEFAULT"
    BY <2>1 DEF OnePush
  <2> QED
    BY <1>0, <2>1, <2>2, <2>3, OnePushMonitor
<1>6. CASE MonRetry /\ monLog.row.retry > 0
  <2> DEFINE t == [job |-> monLog.row.job, retry |-> monLog.row.retry - 1, parent |-> monLog.id]
             p == monLog.id
  <2>1. /\ Push(t) /\ UNCHANGED <<log, monLogs, monLog>> /\ monPc = "retry" /\ monPc' = "alarm"
    BY <1>6 DEF MonRetry
  <2>2. t \in Task /\ t.parent = p
    BY <1>6, RetryTask
  <2>3. /\ monLog \in Unpushed /\ p \in DOMAIN log /\ Unpushed' = monLogs
        /\ \A e \in monLogs : e \in Unpushed /\ e.id # p /\ e.id \in DOMAIN log
    BY <2>1 DEF Unpushed, Copies, Selected
  <2>4. JobThere(p) => ~Planned(p)
    BY <1>6, <2>3 DEF OnePush
  <2> HIDE DEF t, p
  <2>5. /\ Len(queue) \in Nat /\ DOMAIN queue = 1..Len(queue) /\ DOMAIN queue' = 1..Len(queue) + 1
        /\ queue'[Len(queue) + 1] = t /\ \A i \in DOMAIN queue : queue'[i] = queue[i]
    BY <2>1, <2>2, PushPlaces
  <2>6. \A i \in DOMAIN queue' :
          (i \in DOMAIN queue /\ queue'[i] = queue[i]) \/ (i = Len(queue) + 1 /\ queue'[i].parent = p)
    BY <2>2, <2>5
  <2>7. \A q : /\ QueuedNext(q) => Queued(q) \/ q = p
               /\ InsertingNext(q) => Inserting(q)
               /\ InsertedNext(q) => Inserted(q)
    BY <1>0, <2>1, <2>6 DEF QueuedNext, Queued, InsertingNext, Inserting, InsertedNext, Inserted
  <2>8. \A q : JobThereNext(q) = JobThere(q)
    BY <1>0, <2>1 DEF JobThereNext, JobThere
  <2>9. ASSUME NEW i \in DOMAIN queue', NEW k \in DOMAIN queue',
               queue'[i].parent = queue'[k].parent, queue'[i].parent # 0,
               JobThereNext(queue'[i].parent)
        PROVE  i = k
    BY <2>4, <2>6, <2>8, <2>9 DEF OnePush, Planned, Queued
  <2>10. \A q \in DOMAIN log' :
           JobThereNext(q) /\ QueuedNext(q) => ~InsertingNext(q) /\ ~InsertedNext(q)
    BY <2>1, <2>4, <2>7, <2>8 DEF OnePush, Planned
  <2>11. \A e \in Unpushed' : e.row.retry > 0 /\ JobThereNext(e.id) => ~PlannedNext(e.id)
    BY <2>3, <2>7, <2>8 DEF OnePush, PlannedNext, Planned
  <2>12. ASSUME NEW q \in DOMAIN log', PlannedNext(q), JobThereNext(q), log'[q].there
         PROVE  log'[q].alarm # "DEFAULT" \/ (monPc' \in {"alarm", "update"} /\ monLog'.id = q)
    BY <2>1, <2>7, <2>8, <2>12 DEF OnePush, PlannedNext, Planned, p
  <2> QED
    BY <2>9, <2>10, <2>11, <2>12, OnePushNext
<1> QED
  BY <1>2, <1>3, <1>4, <1>5, <1>6 DEF Monitor

\* A push that has been looked up is with its thread.
LEMMA LookUpPush ==
  ASSUME TypeOK, Repeats, Copies, OnePush, NEW w \in Workers, TriggerLookUp(w)
  PROVE  OnePush'
<1> DEFINE p == queue[1].parent
<1>1. /\ UNCHANGED <<log, job, monPc, monLogs, monLog>>
      /\ \A i \in DOMAIN queue' : i + 1 \in DOMAIN queue /\ queue'[i] = queue[i + 1]
      /\ 1 \in DOMAIN queue /\ \A i \in DOMAIN queue' : i \in Nat \ {0}
  <2>1. queue' \in Seq(Task)
    BY LookUpWorker
  <2> QED
    BY <2>1, LookUpWorker DEF TriggerLookUp, trigKeeps, monVars
<1>2. /\ DOMAIN queue = 1..Len(queue) /\ DOMAIN log = 1..Len(log)
      /\ Len(queue) \in Nat /\ Len(log) \in Nat
  BY TasksAre, RowsAre
<1>3. \A q : QueuedNext(q) => Queued(q)
  BY <1>1 DEF QueuedNext, Queued
<1>4. \A q : (InsertedNext(q) => Inserted(q)) /\ JobThereNext(q) = JobThere(q)
  BY <1>1 DEF InsertedNext, Inserted, JobThereNext, JobThere
<1>5. \A q : InsertingNext(q) => Inserting(q) \/ (q = p /\ job[queue[1].job].there)
  <2>1. \A v \in Workers : worker'[v] = worker[v]
          \/ (worker'[v].parent = p /\ job[queue[1].job].there)
    BY LookUpWorker
  <2> QED
    BY <2>1 DEF InsertingNext, Inserting
<1>6. Queued(p)
  BY <1>1 DEF Queued
<1>7. \A q \in DOMAIN log : PlannedNext(q) => Planned(q)
  BY <1>3, <1>4, <1>5, <1>6 DEF PlannedNext, Planned
<1>8. ASSUME NEW q \in DOMAIN log, QueuedNext(q), JobThere(q) PROVE q # p
  <2>1. PICK i \in DOMAIN queue' : queue'[i].parent = q
    BY <1>8 DEF QueuedNext
  <2>2. i + 1 \in DOMAIN queue /\ queue[i + 1].parent = q /\ i + 1 # 1 /\ q # 0
    BY <1>1, <1>2, <2>1
  <2> QED
    BY <1>1, <1>8, <2>2 DEF OnePush
<1> HIDE DEF p
<1>9. ASSUME NEW i \in DOMAIN queue', NEW k \in DOMAIN queue',
             queue'[i].parent = queue'[k].parent, queue'[i].parent # 0,
             JobThereNext(queue'[i].parent)
      PROVE  i = k
  <2>1. /\ i + 1 \in DOMAIN queue /\ k + 1 \in DOMAIN queue
        /\ queue[i + 1].parent = queue[k + 1].parent /\ queue[i + 1].parent # 0
        /\ JobThere(queue[i + 1].parent)
    BY <1>1, <1>4, <1>9
  <2>2. i + 1 = k + 1
    BY <2>1 DEF OnePush
  <2> QED
    BY <2>2, <1>1
<1>10. \A q \in DOMAIN log' :
         JobThereNext(q) /\ QueuedNext(q) => ~InsertingNext(q) /\ ~InsertedNext(q)
  BY <1>1, <1>3, <1>4, <1>5, <1>8 DEF OnePush
<1>11. Unpushed' = Unpushed /\ \A e \in Unpushed : e.id \in DOMAIN log
  BY <1>1 DEF Unpushed, Copies, Selected
<1>12. \A e \in Unpushed' : e.row.retry > 0 /\ JobThereNext(e.id) => ~PlannedNext(e.id)
  BY <1>4, <1>7, <1>11 DEF OnePush
<1>13. \A q \in DOMAIN log' : PlannedNext(q) /\ JobThereNext(q) /\ log'[q].there =>
         log'[q].alarm # "DEFAULT" \/ (monPc' \in {"alarm", "update"} /\ monLog'.id = q)
  BY <1>1, <1>4, <1>7 DEF OnePush
<1> QED
  BY <1>9, <1>10, <1>12, <1>13, OnePushNext

LEMMA InsertPush ==
  ASSUME TypeOK, Repeats, Copies, OnePush, NEW w \in Workers, TriggerInsert(w)
  PROVE  OnePush'
<1>1. UNCHANGED <<queue, job, monPc, monLogs, monLog>>
  BY DEF TriggerInsert, trigKeeps, monVars
<1>2. /\ DOMAIN log \subseteq DOMAIN log' /\ \A l \in DOMAIN log : log'[l] = log[l]
      /\ \A l \in DOMAIN log' : l \in DOMAIN log
           \/ (l = Len(log) + 1 /\ log'[l].parent = worker[w].parent)
      /\ \A l \in DOMAIN log' : l # 0
  BY InsertRow
<1>3. /\ worker[w].pc = "insert"
      /\ \A v \in Workers : worker'[v].pc = "insert" => worker'[v] = worker[v]
  BY InsertWorker
<1>4. \A q : QueuedNext(q) => Queued(q)
  BY <1>1 DEF QueuedNext, Queued
<1>5. \A q : InsertingNext(q) => Inserting(q)
  BY <1>3 DEF InsertingNext, Inserting
<1>6. \A q : InsertedNext(q) => Inserted(q) \/ Inserting(q)
  BY <1>2, <1>3 DEF InsertedNext, Inserted, Inserting
<1>7. \A q : PlannedNext(q) => Planned(q)
  BY <1>4, <1>5, <1>6 DEF PlannedNext, Planned
<1>8. \A q : Planned(q) /\ q # 0 => q \in DOMAIN log
  BY PlannedHasRow DEF Repeatable
<1>9. \A q \in DOMAIN log : JobThereNext(q) = JobThere(q)
  BY <1>1, <1>2 DEF JobThereNext, JobThere
<1>10. \A i, k \in DOMAIN queue' :
         queue'[i].parent = queue'[k].parent /\ queue'[i].parent # 0
           /\ JobThereNext(queue'[i].parent) => i = k
  <2>1. \A i \in DOMAIN queue : queue[i].parent # 0 => queue[i].parent \in DOMAIN log
    BY DEF Repeats, RepeatedWith, Repeatable
  <2> QED
    BY <2>1, <1>1, <1>9 DEF OnePush
<1>11. \A q \in DOMAIN log' :
         JobThereNext(q) /\ QueuedNext(q) => ~InsertingNext(q) /\ ~InsertedNext(q)
  <2>1. \A q \in DOMAIN log' : QueuedNext(q) => q \in DOMAIN log
    BY <1>2, <1>4, <1>8 DEF Planned
  <2> QED
    BY <2>1, <1>4, <1>5, <1>6, <1>9 DEF OnePush
<1>12. Unpushed' = Unpushed /\ \A e \in Unpushed : e.id \in DOMAIN log
  BY <1>1 DEF Unpushed, Copies, Selected
<1>13. \A e \in Unpushed' : e.row.retry > 0 /\ JobThereNext(e.id) => ~PlannedNext(e.id)
  BY <1>7, <1>9, <1>12 DEF OnePush
<1>14. \A q \in DOMAIN log' : PlannedNext(q) /\ JobThereNext(q) /\ log'[q].there =>
         log'[q].alarm # "DEFAULT" \/ (monPc' \in {"alarm", "update"} /\ monLog'.id = q)
  BY <1>1, <1>2, <1>7, <1>8, <1>9 DEF OnePush
<1> QED
  BY <1>10, <1>11, <1>13, <1>14, OnePushNext

LEMMA FirePush ==
  ASSUME TypeOK, Repeats, Copies, OnePush, NEW j \in Jobs, Fire(j)
  PROVE  OnePush'
<1> DEFINE t == [job |-> j, retry |-> -1, parent |-> 0]
<1>1. UNCHANGED <<log, job, worker, monPc, monLogs, monLog>> /\ Push(t)
  BY DEF Fire, monVars
<1>2. t \in Task /\ t.parent = 0
  BY FireTask
<1> HIDE DEF t
<1>3. \A i \in DOMAIN queue' : queue'[i].parent # 0 => i \in DOMAIN queue /\ queue'[i] = queue[i]
  BY <1>1, <1>2, PushPlaces
<1>4. \A q : (QueuedNext(q) /\ q # 0 => Queued(q)) /\ JobThereNext(q) = JobThere(q)
  BY <1>1, <1>3 DEF QueuedNext, Queued, JobThereNext, JobThere
<1>5. \A q : (InsertingNext(q) => Inserting(q)) /\ (InsertedNext(q) => Inserted(q))
  BY <1>1 DEF InsertingNext, Inserting, InsertedNext, Inserted
<1>6. \A q : PlannedNext(q) /\ q # 0 => Planned(q)
  BY <1>4, <1>5 DEF PlannedNext, Planned
<1>7. Unpushed' = Unpushed /\ (\A e \in Unpushed : e.id \in DOMAIN log) /\ 0 \notin DOMAIN log
  BY <1>1, RowsAre DEF Unpushed, Copies, Selected
<1>8. \A i, k \in DOMAIN queue' :
        queue'[i].parent = queue'[k].parent /\ queue'[i].parent # 0
          /\ JobThereNext(queue'[i].parent) => i = k
  BY <1>3, <1>4 DEF OnePush
<1>9. \A q \in DOMAIN log' :
        JobThereNext(q) /\ QueuedNext(q) => ~InsertingNext(q) /\ ~InsertedNext(q)
  BY <1>1, <1>4, <1>5, <1>7 DEF OnePush
<1>10. \A e \in Unpushed' : e.row.retry > 0 /\ JobThereNext(e.id) => ~PlannedNext(e.id)
  BY <1>4, <1>6, <1>7 DEF OnePush
<1>11. \A q \in DOMAIN log' : PlannedNext(q) /\ JobThereNext(q) /\ log'[q].there =>
         log'[q].alarm # "DEFAULT" \/ (monPc' \in {"alarm", "update"} /\ monLog'.id = q)
  BY <1>1, <1>4, <1>6, <1>7 DEF OnePush
<1> QED
  BY <1>8, <1>9, <1>10, <1>11, OnePushNext

LEMMA OnePushStep ==
  TypeOK /\ RowsOwned /\ OneCallback /\ Repeats /\ Copies /\ OnePlace /\ OnePush /\ [Next]_vars
    /\ fails' = 0 => OnePush'
<1> SUFFICES ASSUME TypeOK, RowsOwned, OneCallback, Repeats, Copies, OnePlace, OnePush,
                    [Next]_vars, fails' = 0
             PROVE  OnePush'
  OBVIOUS
<1>0. CASE UNCHANGED vars
  BY <1>0, LogKept, OnePushElsewhere DEF vars, monVars
<1>1. CASE \E w \in Workers : TriggerLookUp(w)
  BY <1>1, LookUpPush
<1>2. CASE \E w \in Workers : TriggerInsert(w)
  BY <1>2, InsertPush
<1>3. CASE \E w \in Workers : TriggerSend(w) \/ TriggerReply(w)
  <2>1. PICK w \in Workers : TriggerSend(w) \/ TriggerReply(w)
    BY <1>3
  <2>2. UNCHANGED <<log, job, queue, monPc, monLogs, monLog>>
    BY <2>1 DEF TriggerSend, TriggerReply, trigKeeps, monVars
  <2>3. worker'[w].pc # "insert" /\ \A v \in Workers : v # w => worker'[v] = worker[v]
    BY <2>1, SendWorker
  <2>4. \A p \in DOMAIN log : /\ InsertingNext(p) => Inserting(p)
                              /\ InsertedNext(p) => Inserted(p)
                              /\ JobThereNext(p) => JobThere(p)
    BY <2>2, <2>3 DEF InsertingNext, Inserting, InsertedNext, Inserted, JobThereNext, JobThere
  <2> QED
    BY <2>2, <2>4, OnePushKept
<1>4. CASE \E w \in Workers : TriggerResult(w)
  <2>1. PICK w \in Workers : TriggerResult(w)
    BY <1>4
  <2> DEFINE k == worker[w].log
  <2>2. UNCHANGED <<job, queue, monPc, monLogs, monLog>> /\ worker' = [worker EXCEPT ![w] = Idle]
    BY <2>1 DEF TriggerResult, trigKeeps, monVars
  <2>3. /\ DOMAIN log' = DOMAIN log /\ log[k].trigger = 0 /\ log'[k].job = log[k].job
        /\ log'[k].parent = log[k].parent /\ \A l \in DOMAIN log : l # k => log'[l] = log[l]
    BY <2>1, ResultRow
  <2>4. worker'[w].pc = "idle" /\ \A v \in Workers : v # w => worker'[v] = worker[v]
    BY <2>2, IdleWorker
  <2> HIDE DEF k
  <2>5. \A p \in DOMAIN log : /\ InsertingNext(p) => Inserting(p)
                              /\ InsertedNext(p) => Inserted(p)
                              /\ JobThereNext(p) => JobThere(p)
    BY <2>2, <2>3, <2>4
       DEF InsertingNext, Inserting, InsertedNext, Inserted, JobThereNext, JobThere
  <2>6. \A p \in DOMAIN log : Repeatable(p) => log'[p] = log[p]
    BY <2>3, CodesAre DEF Repeatable
  <2> QED
    BY <2>2, <2>3, <2>5, <2>6, OnePushKept
<1>5. CASE MonException \/ Restart \/ \E w \in Workers : TriggerException(w)
  BY <1>5 DEF MonException, Restart, TriggerException, TypeOK
<1>6. CASE \E l \in DOMAIN exec : ExecutorDone(l)
  BY <1>6, LogKept, OnePushElsewhere DEF ExecutorDone, monVars
<1>7. CASE \E c \in callbacks : CallbackRead(c)
  BY <1>7, LogKept, OnePushElsewhere DEF CallbackRead, monVars
<1>8. CASE \E c \in callbacks : CallbackWrite(c)
  BY <1>8, CallbackRow, OnePushElsewhere DEF CallbackWrite, monVars
<1>9. CASE Monitor
  BY <1>9, MonitorPush
<1>10. CASE \E j \in Jobs : Fire(j)
  BY <1>10, FirePush
<1>11. CASE \E j \in Jobs : DeleteJob(j)
  <2>1. PICK j \in Jobs : DeleteJob(j)
    BY <1>11
  <2>2. UNCHANGED <<log, worker, queue, monPc, monLogs, monLog>>
    BY <2>1 DEF DeleteJob, monVars
  <2>3. \A i \in Jobs : job'[i].there => job[i].there
    BY <2>1 DEF DeleteJob, TypeOK, Info
  <2> QED
    BY <2>2, <2>3, LogKept, OnePushElsewhere
<1>12. CASE \E S \in SUBSET DOMAIN log : DeleteLogs(S)
  BY <1>12, DeletedRows, OnePushElsewhere DEF DeleteLogs, monVars
<1> QED
  BY <1>0, <1>1, <1>2, <1>3, <1>4, <1>5, <1>6, <1>7, <1>8, <1>9, <1>10, <1>11, <1>12
     DEF Next, JobTrigger, Executor

-----------------------------------------------------------------------------
(* The invariant *)

LEMMA InvInit == Init => TriggerIInv
<1> SUFFICES ASSUME Init PROVE TriggerIInv
  OBVIOUS
<1>1. TypeOK
  BY InitType
<1>2. /\ DOMAIN log = {} /\ DOMAIN queue = {} /\ callbacks = {} /\ monLogs = {}
      /\ monPc = "sleep" /\ retried = {}
  BY EmptyPlaces DEF Init
<1>3. \A w \in Workers : worker[w].pc = "idle"
  BY NothingTyped DEF Init
<1>4. Selected = {} /\ Unpushed = {} /\ \A w \in Workers : ~Writes(w)
  BY <1>2, <1>3 DEF Selected, Unpushed, Writes
<1>5. RowsOwned /\ OneCallback
  BY <1>2, <1>4 DEF RowsOwned, OneCallback
<1>6. Repeats /\ Copies
  BY <1>2, <1>3, <1>4 DEF Repeats, Copies
<1>7. OnePlace /\ OnePush
  BY <1>2, <1>3, <1>4 DEF OnePlace, OnePush
<1> QED
  BY <1>1, <1>5, <1>6, <1>7 DEF TriggerIInv

LEMMA InvNext == TriggerIInv /\ [Next]_vars => TriggerIInv'
<1> SUFFICES ASSUME TriggerIInv, [Next]_vars PROVE TriggerIInv'
  OBVIOUS
<1>1. TypeOK /\ RowsOwned /\ OneCallback /\ Repeats /\ Copies
  BY DEF TriggerIInv
<1>2. fails' = 0 => fails = 0
  <2>1. fails' = fails \/ fails' = fails + 1
    BY DEF Next, JobTrigger, TriggerLookUp, TriggerInsert, TriggerSend, TriggerReply, TriggerResult,
       TriggerException, Executor, ExecutorDone, CallbackRead, CallbackWrite, Monitor, MonSelect,
       MonLookUp, MonRetry, MonAlarm, MonUpdate, MonRest, MonReject, MonException, Restart, Fire,
       DeleteJob, DeleteLogs, bounds, vars
  <2> QED
    BY <1>1, <2>1 DEF TypeOK
<1>3. fails' = 0 => OnePlace' /\ OnePush'
  BY <1>1, <1>2, OnePlaceStep, OnePushStep DEF TriggerIInv
<1> QED
  BY <1>1, <1>3, TypeStep, RowsOwnedStep, OneCallbackStep, RepeatsStep, CopiesStep DEF TriggerIInv

\* The states the log can be in: each row is written by one thread and one callback, and, as long
\* as nothing has failed, what repeats a failed run is at one place.
THEOREM TriggerInvariant == Spec => []TriggerIInv
BY InvInit, InvNext, PTL DEF Spec

-----------------------------------------------------------------------------
\* The pool, the log, the callbacks and the monitor stay in their types: no thread writes a row
\* that was not inserted, and the monitor's job and status are those of a row.
THEOREM TriggerTyped == Spec => []TypeOK
<1>1. TriggerIInv => TypeOK
  BY DEF TriggerIInv
<1> QED
  BY <1>1, TriggerInvariant, PTL

\* However old the monitor's copy of a row is: what it pushes again is a run whose trigger failed.
THEOREM RetriesFailedRuns == Spec => []OnlyFailedRetried
<1>1. TriggerIInv => OnlyFailedRetried
  BY DEF TriggerIInv, Repeats, OnlyFailedRetried
<1> QED
  BY <1>1, TriggerInvariant, PTL

\* A result, the trigger's or the run's, is written once: TriggerResult writes to a row without
\* one, and so does CallbackWrite, though it has read the row before.
LEMMA ResultsStay ==
  TriggerIInv /\ [Next]_vars =>
    [\A l \in DOMAIN log : /\ log[l].trigger # 0 => log'[l].trigger = log[l].trigger
                           /\ log[l].exec # 0 => log'[l].exec = log[l].exec]_vars
<1> SUFFICES ASSUME TriggerIInv, Next, NEW l \in DOMAIN log
             PROVE  /\ log[l].trigger # 0 => log'[l].trigger = log[l].trigger
                    /\ log[l].exec # 0 => log'[l].exec = log[l].exec
  OBVIOUS
<1>0. TypeOK /\ RowsOwned /\ OneCallback /\ Copies
  BY DEF TriggerIInv
<1>1. CASE \E w \in Workers : TriggerInsert(w)
  BY <1>0, <1>1, InsertRow
<1>2. CASE \E w \in Workers : TriggerResult(w)
  <2>1. PICK w \in Workers : TriggerResult(w)
    BY <1>2
  <2> QED
    BY <1>0, <2>1, ResultRow
<1>3. CASE \E c \in callbacks : CallbackWrite(c)
  <2>1. PICK c \in callbacks : CallbackWrite(c)
    BY <1>3
  <2>2. log[c.log].exec = 0
    BY <1>0 DEF OneCallback
  <2> QED
    BY <1>0, <2>1, <2>2, CallbackRow DEF SameRows
<1>4. CASE Monitor \/ MonException
  BY <1>0, <1>4, MonitorKeeps, AlarmRow DEF SameRows, SameResults
<1>5. CASE \E S \in SUBSET DOMAIN log : DeleteLogs(S)
  BY <1>0, <1>5, DeletedRows DEF SameRows, SameResults
<1>6. CASE UNCHANGED log
  BY <1>6
<1> QED
  BY <1>1, <1>2, <1>3, <1>4, <1>5, <1>6 DEF Next, JobTrigger, TriggerLookUp, TriggerSend,
     TriggerReply, TriggerException, Executor, ExecutorDone, CallbackRead, Restart, Fire, DeleteJob

\* updateTriggerResultById, callback and updateAlarmStatusById write columns of their own: no late
\* answer, second callback or old copy of a row undoes a result once it is recorded.
THEOREM ResultsAreKept == Spec => ResultsKept
BY ResultsStay, TriggerInvariant, PTL DEF Spec, ResultsKept

-----------------------------------------------------------------------------
(* Retries, as RetryPolicy has them *)

\* A row as an attempt.
AttemptOf(row) == [of |-> row.parent, left |-> row.retry, outcome |-> row.trigger]
Attempts == [l \in DOMAIN log |-> [of |-> log[l].parent, left |-> log[l].retry,
                                   outcome |-> log[l].trigger]]

\* A step that leaves the attempts alone.
LEMMA AttemptsKept == ASSUME SameRows PROVE UNCHANGED Attempts
BY DEF SameRows, Attempts

LEMMA InsertAttempt ==
  ASSUME TypeOK, NEW w \in Workers, TriggerInsert(w)
  PROVE  Attempts' = Append(Attempts, [of |-> worker[w].parent, left |-> 0, outcome |-> 0])
<1> DEFINE A == [of : Nat, left : Nat, outcome : Nat]
           a == [of |-> worker[w].parent, left |-> 0, outcome |-> 0]
           n == Len(log)
<1>1. /\ n \in Nat /\ DOMAIN log = 1..n /\ DOMAIN log' = 1..n + 1
      /\ log'[n + 1].parent = worker[w].parent /\ log'[n + 1].retry = 0 /\ log'[n + 1].trigger = 0
      /\ \A l \in 1..n : log'[l] = log[l]
  BY InsertRow
<1>2. a \in A
  BY WorkersAre
<1>3. \A l \in 1..n : log[l].parent \in Nat /\ log[l].retry \in Nat /\ log[l].trigger \in Nat
  BY <1>1, RowsAre, Bounds, CodesAre
<1>4. \A l \in 1..n : Attempts[l] \in A /\ Attempts'[l] = Attempts[l]
  BY <1>1, <1>3 DEF Attempts
<1>5. Attempts'[n + 1] = a
  BY <1>1 DEF Attempts
<1>6. DOMAIN Attempts = 1..n /\ DOMAIN Attempts' = 1..n + 1
  BY <1>1 DEF Attempts
<1>7. /\ Attempts = [l \in 1..n |-> Attempts[l]]
      /\ Attempts' = [l \in 1..n + 1 |-> Attempts'[l]]
  BY <1>1 DEF Attempts
<1> HIDE DEF A, a, n
<1>8. Attempts \in Seq(A) /\ Len(Attempts) = n
  BY <1>1, <1>4, <1>6, <1>7
<1>9. \A l \in 1..n + 1 : Attempts'[l] \in A
  BY <1>1, <1>2, <1>4, <1>5
<1>10. Attempts' \in Seq(A) /\ Len(Attempts') = n + 1
  BY <1>1, <1>6, <1>7, <1>9
<1>11. /\ Append(Attempts, a) \in Seq(A) /\ Len(Append(Attempts, a)) = n + 1
       /\ Append(Attempts, a)[n + 1] = a /\ \A l \in 1..n : Append(Attempts, a)[l] = Attempts[l]
  BY <1>2, <1>8, AppendPlaces
<1>12. \A l \in 1..n + 1 : Attempts'[l] = Append(Attempts, a)[l]
  BY <1>1, <1>4, <1>5, <1>11
<1>13. Attempts' = Append(Attempts, a)
  BY <1>10, <1>11, <1>12, SeqEqual
<1> QED
  BY <1>13 DEF a

LEMMA InsertPolicy ==
  ASSUME TriggerIInv, NEW w \in Workers, TriggerInsert(w)
  PROVE  Policy!Begin \/ \E a \in DOMAIN log : Policy!Repeat(a)
<1> DEFINE p == worker[w].parent
<1>0. TypeOK /\ Repeats /\ worker[w].pc = "insert" /\ UNCHANGED fails
  BY DEF TriggerIInv, TriggerInsert
<1>1. Attempts' = Append(Attempts, [of |-> p, left |-> 0, outcome |-> 0])
  BY <1>0, InsertAttempt
<1>2. \A q : q = p => Policy!Attempt(q)
  BY <1>0, <1>1 DEF Policy!Attempt, Policy!Open, Attempts
<1>3. CASE p = 0
  BY <1>2, <1>3 DEF Policy!Begin
<1>4. CASE p # 0
  <2>1. p \in DOMAIN log /\ log[p].trigger = Fail /\ log[p].retry > 0
    BY <1>0, <1>4 DEF Repeats, RepeatedWith, Repeatable
  <2>2. fails = 0 => ~Inserted(p)
    BY <1>0, <2>1 DEF TriggerIInv, OnePlace, Inserting
  <2>3. fails \in Nat
    BY <1>0 DEF TypeOK
  <2>4. \A q : q = p /\ Policy!Repeated(q) => Inserted(p)
    BY DEF Policy!Repeated, Inserted
  <2>5. \A q : q = p => Policy!Repeat(q)
    BY <1>2, <2>1, <2>2, <2>3, <2>4 DEF Policy!Repeat, Policy!Fail, Fail
  <2> QED
    BY <2>1, <2>5
<1> QED
  BY <1>3, <1>4

LEMMA ResultPolicy ==
  ASSUME TriggerIInv, NEW w \in Workers, TriggerResult(w)
  PROVE  \E a \in DOMAIN log : Policy!End(a)
<1> DEFINE k == worker[w].log
<1>0. TypeOK /\ Repeats /\ RowsOwned /\ Writes(w) /\ worker[w].pc = "result" /\ UNCHANGED fails
  BY DEF TriggerIInv, TriggerResult, Writes
<1>1. /\ k \in DOMAIN log /\ DOMAIN log' = DOMAIN log /\ log[k].trigger = 0
      /\ log'[k].trigger = worker[w].code /\ worker[w].code # 0
      /\ log'[k].retry = worker[w].retry /\ log'[k].parent = log[k].parent
      /\ \A l \in DOMAIN log : l # k => log'[l] = log[l]
  BY <1>0, ResultRow
<1>2. worker[w].retry \in 0..MaxRetry /\ worker[w].code \in {Success, Fail}
  BY <1>0, <1>1, WorkersAre DEF Codes
<1>3. log[k].parent = worker[w].parent
  BY <1>0 DEF RowsOwned
<1>4. log[k].parent # 0 => /\ log[k].parent \in DOMAIN log
                           /\ worker[w].retry = log[log[k].parent].retry - 1
  BY <1>0, <1>3 DEF Repeats, RepeatedWith, Repeatable
<1> HIDE DEF k
<1> DEFINE left == worker[w].retry
           outcome == worker[w].code
<1>5. Attempts' = [Attempts EXCEPT ![k].left = left, ![k].outcome = outcome]
  <2>1. DOMAIN Attempts' = DOMAIN Attempts
        /\ DOMAIN [Attempts EXCEPT ![k].left = left, ![k].outcome = outcome] = DOMAIN Attempts
        /\ DOMAIN Attempts = DOMAIN log
    BY <1>1 DEF Attempts
  <2>2. \A l \in DOMAIN log :
          Attempts'[l] = [Attempts EXCEPT ![k].left = left, ![k].outcome = outcome][l]
    BY <1>1 DEF Attempts
  <2> QED
    BY <2>1, <2>2, <1>1 DEF Attempts
<1>6. /\ Attempts[k].outcome = 0
      /\ Attempts[k].of # 0 => left = Attempts[Attempts[k].of].left - 1
      /\ left \in 0..MaxRetry /\ outcome \in {200, 500}
  BY <1>1, <1>2, <1>4 DEF Attempts, Success, Fail
<1>7. \A q \in DOMAIN log :
        /\ Attempts[q].outcome = 0
        /\ \E n \in 0..MaxRetry, o \in {200, 500} :
             /\ Attempts[q].of # 0 => n = Attempts[Attempts[q].of].left - 1
             /\ Attempts' = [Attempts EXCEPT ![q].left = n, ![q].outcome = o]
        => Policy!End(q)
  BY <1>0, Zenon DEF Policy!End, Policy!Open, Policy!Success, Policy!Fail, Attempts
<1> HIDE DEF left, outcome
<1> QED
  BY <1>1, <1>5, <1>6, <1>7

LEMMA PolicyInit == Init => Policy!Init
<1> SUFFICES ASSUME Init PROVE Policy!Init
  OBVIOUS
<1>1. DOMAIN log = {} /\ fails = 0
  BY EmptyPlaces DEF Init
<1>2. Attempts = << >>
  BY <1>1, EmptyPlaces DEF Attempts
<1> QED
  BY <1>1, <1>2 DEF Policy!Init, Attempts

\* Every step is one of the policy's, or none.
LEMMA PolicyNext ==
  TriggerIInv /\ [Next]_vars => [Policy!Next]_<<Attempts, fails > 0>>
<1> SUFFICES ASSUME TriggerIInv, [Next]_vars PROVE [Policy!Next]_<<Attempts, fails > 0>>
  OBVIOUS
<1>0. TypeOK /\ RowsOwned /\ OneCallback /\ Copies /\ fails \in Nat
  BY DEF TriggerIInv, TypeOK
<1>1. DOMAIN Attempts = DOMAIN log
  BY DEF Attempts
<1>2. CASE \E w \in Workers : TriggerInsert(w)
  BY <1>1, <1>2, InsertPolicy DEF Policy!Next, Attempts
<1>3. CASE \E w \in Workers : TriggerResult(w)
  BY <1>1, <1>3, ResultPolicy DEF Policy!Next, Attempts
<1>4. CASE MonException \/ Restart \/ \E w \in Workers : TriggerException(w)
  <2>1. fails' = fails + 1 /\ UNCHANGED log
    BY <1>4 DEF MonException, Restart, TriggerException
  <2>2. (fails > 0)' = TRUE
    BY <1>0, <2>1
  <2>3. UNCHANGED Attempts
    BY <2>1, LogKept, AttemptsKept
  <2>4. Policy!Failure
    BY <2>2, <2>3 DEF Policy!Failure, Attempts
  <2> QED
    BY <2>4 DEF Policy!Next
<1>5. CASE SameRows /\ UNCHANGED fails
  BY <1>5, AttemptsKept
<1>6. CASE \E c \in callbacks : CallbackWrite(c)
  BY <1>0, <1>5, <1>6, CallbackRow DEF CallbackWrite, bounds
<1>7. CASE Monitor
  BY <1>0, <1>4, <1>5, <1>7, MonitorKeeps, AlarmRow, LogKept
<1>8. CASE \E S \in SUBSET DOMAIN log : DeleteLogs(S)
  BY <1>0, <1>5, <1>8, DeletedRows DEF DeleteLogs, bounds
<1>9. CASE UNCHANGED <<log, fails>>
  BY <1>5, <1>9, LogKept
<1> QED
  BY <1>2, <1>3, <1>4, <1>6, <1>7, <1>8, <1>9 DEF Next, JobTrigger, TriggerLookUp, TriggerSend,
     TriggerReply, Executor, ExecutorDone, CallbackRead, Fire, DeleteJob, bounds, vars

\* The rows of the log are attempts as RetryPolicy has them: a failed trigger is pushed again with
\* one retry less, and, as long as no thread or database has failed, only once.
THEOREM TriggerImplementsPolicy == Spec => ImplementsRetryPolicy
<1>1. TriggerIInv /\ [Next]_vars
        => [Policy!Next]_<<[l \in DOMAIN log |-> [of |-> log[l].parent, left |-> log[l].retry,
                                                  outcome |-> log[l].trigger]], fails > 0>>
  BY PolicyNext DEF Attempts
<1> QED
  BY <1>1, PolicyInit, TriggerInvariant, PTL DEF Spec, ImplementsRetryPolicy, Policy!Spec
=============================================================================

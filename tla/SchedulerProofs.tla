--------------------------- MODULE SchedulerProofs ---------------------------
(* What holds of Scheduler for every value of its constants: its types, and *)
(* NotEarly, from the invariant EarlyInv.                                   *)
EXTENDS SchedulerInv, SequenceTheorems, TLAPS

\* The constants, each with its type, as ConstantsAssumption gives them.
LEMMA ConstantTypes ==
  /\ Jobs # {} /\ Crons # {}
  /\ Occ \in [Crons -> SUBSET Nat]
  /\ Period \in Nat /\ Period > 0 /\ PreRead \in Nat /\ PreRead > 0 /\ ScanSleep \in Nat
  /\ StartDelay \in Nat /\ Clock0 \in Nat /\ Clock0 > 0
  /\ TrigLag \in Nat /\ ScanLag \in Nat /\ StartLag \in Nat
  /\ PreRead < Period /\ PreRead <= StartDelay
BY ConstantsAssumption

USE ConstantTypes

-----------------------------------------------------------------------------
(* The operators the model is built from *)

\* getNextValidTimeAfter answers 0 or a later second.
LEMMA NextValidTimeAfterLater ==
  ASSUME NEW c \in Crons, NEW t \in Nat
  PROVE  /\ NextValidTimeAfter(c, t) \in Nat
         /\ NextValidTimeAfter(c, t) # 0 => NextValidTimeAfter(c, t) > t
<1> DEFINE later == {o \in Occ[c] : o > t}
           first == {o \in later : \A p \in later : o <= p}
<1>1. first \subseteq {o \in Nat : o > t}
  OBVIOUS
<1>2. CASE first = {}
  BY <1>2 DEF NextValidTimeAfter
<1>3. CASE first # {}
  <2>1. NextValidTimeAfter(c, t) = CHOOSE o \in first : TRUE
    BY <1>3 DEF NextValidTimeAfter
  <2>2. NextValidTimeAfter(c, t) \in first
    BY <1>3, <2>1
  <2> QED
    BY <1>1, <2>2
<1> QED
  BY <1>2, <1>3

\* refreshNextValidTime leaves a job stopped or with a later occurrence.
LEMMA RefreshedLater ==
  ASSUME NEW info \in Info, NEW t \in Nat
  PROVE  /\ Refreshed(info, t) \in Info
         /\ \/ Refreshed(info, t).st = "STOPPED" /\ Refreshed(info, t).next = 0
            \/ Refreshed(info, t).st = "RUNNING" /\ Refreshed(info, t).next > t
<1> DEFINE n == NextValidTimeAfter(info.cron, t)
<1>1. info.cron \in Crons /\ info.st \in Status /\ info.next \in Nat /\ info.last \in Nat
  BY DEF Info
<1>2. n \in Nat /\ (n # 0 => n > t)
  BY <1>1, NextValidTimeAfterLater
<1> QED
  BY <1>1, <1>2 DEF Refreshed, Info, Status

\* Every second has a slot of the ring.
LEMMA SlotType ==
  ASSUME NEW t \in Nat
  PROVE  Slot(t) \in 0..Period-1
BY DEF Slot

\* What stands for scanJob's list where there is none is well typed.
LEMMA BlankType == Blank \in [Jobs -> Info]
<1>1. (CHOOSE c \in Crons : TRUE) \in Crons
  OBVIOUS
<1> QED
  BY <1>1 DEF Blank, Info, Status

-----------------------------------------------------------------------------
(* Type correctness *)

\* A push appends a record to a job's history.
LEMMA PushType ==
  ASSUME TypeOK, NEW j \in Jobs, NEW O \in SUBSET Nat, Push(j, O)
  PROVE  pushed' \in [Jobs -> Seq([occs: SUBSET Nat, at: Nat])]
<1>1. Append(pushed[j], [occs |-> O, at |-> clock]) \in Seq([occs: SUBSET Nat, at: Nat])
  BY DEF TypeOK
<1> QED
  BY <1>1 DEF TypeOK, Push

\* No step of scanJob leaves the types.
LEMMA ScanStepType ==
  ASSUME TypeOK, ScanStep
  PROVE  TypeOK'
<1> USE DEF TypeOK
<1>1. CASE ScanSelect
  <2>1. /\ nowTime' = clock /\ picked' \subseteq Jobs /\ jobInfos' = picked' /\ mem' = row
        /\ scanPc' = "jobs"
    BY <1>1 DEF ScanSelect
  <2>2. UNCHANGED <<scanKeeps, row, ring, jobIds, pushed, fails, scanRunning, wake, cur, held>>
    BY <1>1 DEF ScanSelect
  <2> QED
    BY <2>1, <2>2 DEF scanKeeps
<1>2. CASE ScanGetSet
  BY <1>2 DEF ScanGetSet, scanKeeps
<1>3. CASE ScanAdd
  <2> DEFINE t == mem[cur].next
             e == <<cur, t>>
  <2>1. mem[cur] \in Info /\ t \in Nat /\ e \in Entry
    BY DEF Info, Entry
  <2>2. Refreshed(mem[cur], t) \in Info
    BY <2>1, RefreshedLater
  <2>3. mem' \in [Jobs -> Info] /\ scanPc' = "while" /\ held' = "none"
    BY <1>3, <2>2 DEF ScanAdd
  <2>4. /\ ring' \in [0..Period-1 -> SUBSET Entry] /\ jobIds' \subseteq Entry
        /\ trigPc' \in {trigPc, "sleep"} /\ trigNow' = trigNow
    <3>1. Slot(t) \in 0..Period-1
      BY <2>1, SlotType
    <3>2. [ring EXCEPT ![Slot(t)] = @ \cup {e}] \in [0..Period-1 -> SUBSET Entry]
      BY <2>1, <3>1
    <3>3. ring' \in {ring, [ring EXCEPT ![Slot(t)] = @ \cup {e}]}
      BY <1>3 DEF ScanAdd
    <3>4. jobIds' \in {jobIds, jobIds \cup {e}, {}} /\ trigPc' \in {trigPc, "sleep"}
      BY <1>3 DEF ScanAdd
    <3>5. trigNow' = trigNow
      BY <1>3 DEF ScanAdd
    <3> QED
      BY <2>1, <3>2, <3>3, <3>4, <3>5
  <2>5. UNCHANGED <<clock, starting, trigRunning, downAt, row, history, bounds,
                    scanRunning, wake, nowTime, jobInfos, picked, cur>>
    BY <1>3 DEF ScanAdd
  <2> QED
    BY <2>3, <2>4, <2>5 DEF history, bounds
<1>4. CASE ScanNextJob
  BY <1>4 DEF ScanNextJob, scanKeeps
<1>5. CASE ScanUpdates
  BY <1>5 DEF ScanUpdates, scanKeeps
<1>6. CASE ScanRest
  <2>1. scanPc' \in {"sleep", "end"} /\ wake' \in Nat
    BY <1>6 DEF ScanRest, ScanReturn
  <2>2. UNCHANGED <<scanKeeps, row, ring, jobIds, pushed, scanRunning, fails>> /\ NoLocals
    BY <1>6 DEF ScanRest, ScanReturn
  <2> QED
    BY <2>1, <2>2, BlankType DEF scanKeeps, NoLocals
<1>7. ASSUME NEW j \in Jobs, ScanMissed(j) \/ ScanDueNow(j) \/ ScanLater(j)
      PROVE  TypeOK'
  <2>1. mem[j] \in Info /\ mem[j].next \in Nat
    BY DEF Info
  <2>2. PICK info \in Info : LoopBody(j, info)
    BY <1>7, <2>1, RefreshedLater DEF ScanMissed, ScanDueNow, ScanLater
  <2>3. pushed' \in [Jobs -> Seq([occs: SUBSET Nat, at: Nat])]
    <3>1. CASE ScanDueNow(j)
      BY <2>1, <3>1, PushType DEF ScanDueNow
    <3> QED
      BY <1>7, <3>1 DEF ScanMissed, ScanLater
  <2>4. /\ scanPc' = "while" /\ cur' = j /\ jobInfos' \subseteq Jobs
        /\ mem' \in [Jobs -> Info]
    BY <2>2 DEF LoopBody
  <2>5. UNCHANGED <<scanKeeps, row, ring, jobIds, fails, scanRunning, wake, nowTime,
                    picked, held>>
    BY <2>2 DEF LoopBody
  <2> QED
    BY <2>3, <2>4, <2>5 DEF scanKeeps
<1>8. ASSUME NEW j \in Jobs, ScanUpdate(j)
      PROVE  TypeOK'
  <2>1. row' \in [Jobs -> Info] /\ jobInfos' \subseteq Jobs
    <3>1. [mem[j] EXCEPT !.cron = row[j].cron] \in Info
      BY DEF Info
    <3> QED
      BY <1>8, <3>1 DEF ScanUpdate
  <2>2. UNCHANGED <<scanKeeps, ring, jobIds, pushed, fails, scanRunning, scanPc, wake,
                    nowTime, picked, mem, cur, held>>
    BY <1>8 DEF ScanUpdate
  <2> QED
    BY <2>1, <2>2 DEF scanKeeps
<1> QED
  BY <1>1, <1>2, <1>3, <1>4, <1>5, <1>6, <1>7, <1>8 DEF ScanStep

\* Taking a slot moves its entries from the ring to the trigger thread.
LEMMA TakeSlotType ==
  ASSUME TypeOK, NEW s \in 0..Period-1, TakeSlot(s)
  PROVE  /\ ring' \in [0..Period-1 -> SUBSET Entry] /\ jobIds' \subseteq Entry
         /\ held' \in {"none", "ring", "iterated", "lost"}
<1>1. ring' \in [0..Period-1 -> SUBSET Entry] /\ jobIds' \subseteq Entry
  BY DEF TypeOK, TakeSlot
<1>2. held' \in {held, "iterated", "lost"}
  BY DEF TakeSlot
<1> QED
  BY <1>1, <1>2 DEF TypeOK

\* No step of triggerJob leaves the types.
LEMMA TrigStepType ==
  ASSUME TypeOK, TrigStep
  PROVE  TypeOK'
<1> USE DEF TypeOK
<1>1. CASE TrigRead
  BY <1>1 DEF TrigRead, trigKeeps
<1>2. CASE TakePrevious
  <2>1. /\ ring' \in [0..Period-1 -> SUBSET Entry] /\ jobIds' \subseteq Entry
        /\ held' \in {"none", "ring", "iterated", "lost"}
    <3>1. CASE Slot(trigNow) = 0
      BY <1>2, <3>1 DEF TakePrevious
    <3>2. CASE Slot(trigNow) # 0
      <4>1. Slot(trigNow) - 1 \in 0..Period-1
        <5>1. Slot(trigNow) \in 0..Period-1
          BY SlotType
        <5> QED
          BY <3>2, <5>1
      <4>2. TakeSlot(Slot(trigNow) - 1)
        BY <1>2, <3>2 DEF TakePrevious
      <4> QED
        BY <4>1, <4>2, TakeSlotType
    <3> QED
      BY <3>1, <3>2
  <2>2. trigPc' = "previous" /\ UNCHANGED <<trigKeeps, trigRunning, trigNow, pushed, fails>>
    BY <1>2 DEF TakePrevious
  <2> QED
    BY <2>1, <2>2 DEF trigKeeps
<1>3. CASE TakeCurrent
  <2>1. Slot(trigNow) \in 0..Period-1
    BY SlotType
  <2>2. TakeSlot(Slot(trigNow))
    BY <1>3 DEF TakeCurrent
  <2>3. /\ ring' \in [0..Period-1 -> SUBSET Entry] /\ jobIds' \subseteq Entry
        /\ held' \in {"none", "ring", "iterated", "lost"}
    BY <2>1, <2>2, TakeSlotType
  <2>4. trigPc' = "current" /\ UNCHANGED <<trigKeeps, trigRunning, trigNow, pushed, fails>>
    BY <1>3 DEF TakeCurrent
  <2> QED
    BY <2>3, <2>4 DEF trigKeeps
<1>4. CASE TrigRest
  <2>1. trigPc' \in {"sleep", "end"} /\ trigNow' \in Nat /\ jobIds' = {} /\ downAt' \in Nat
    BY <1>4 DEF TrigRest, TrigReturn, NextSecond
  <2>2. held' \in {held, "lost"}
    BY <1>4 DEF TrigRest, TrigReturn
  <2>3. UNCHANGED <<clock, row, starting, scanRunning, scanPc, wake, nowTime, jobInfos,
                    picked, mem, cur, ops, ring, trigRunning, history, fails>>
    BY <1>4 DEF TrigRest, TrigReturn
  <2> QED
    BY <2>1, <2>2, <2>3 DEF history
<1>5. ASSUME NEW j \in Jobs, TrigPush(j)
      PROVE  TypeOK'
  <2>1. Of(j, jobIds) \in SUBSET Nat
    BY DEF Of, Entry
  <2>2. pushed' \in [Jobs -> Seq([occs: SUBSET Nat, at: Nat])]
    BY <1>5, <2>1, PushType DEF TrigPush
  <2>3. jobIds' \subseteq Entry
    BY <1>5 DEF TrigPush
  <2>4. UNCHANGED <<trigKeeps, ring, held, trigRunning, trigPc, trigNow, fails>>
    BY <1>5 DEF TrigPush
  <2> QED
    BY <2>2, <2>3, <2>4 DEF trigKeeps
<1> QED
  BY <1>1, <1>2, <1>3, <1>4, <1>5 DEF TrigStep

\* Neither does the end of a process.
LEMMA NoProcessType ==
  ASSUME NoProcess
  PROVE  /\ ring' \in [0..Period-1 -> SUBSET Entry] /\ jobIds' \subseteq Entry
         /\ starting' \in [Jobs -> [next: Nat, at: Nat]]
         /\ nowTime' \in Nat /\ jobInfos' \subseteq Jobs /\ picked' \subseteq Jobs
         /\ mem' \in [Jobs -> Info] /\ cur' \in Jobs /\ held' = "none"
<1>1. (CHOOSE j \in Jobs : TRUE) \in Jobs
  OBVIOUS
<1> QED
  BY <1>1, BlankType DEF NoProcess, NoLocals, NoStart

\* The rows an earlier process may have left are well typed.
LEMMA InitType == Init => TypeOK
<1> SUFFICES ASSUME Init PROVE TypeOK
  OBVIOUS
<1>1. row \in [Jobs -> Info]
  <2>1. InitRow \subseteq Info
    <3>1. ASSUME NEW c \in Crons, NEW t \in 0..Clock0 + StartDelay
          PROVE  NextValidTimeAfter(c, t) \in Nat
      BY NextValidTimeAfterLater
    <3> QED
      BY <3>1 DEF InitRow, Info, Status
  <2> QED
    BY <2>1 DEF Init
<1>2. since \in [Jobs -> Nat]
  <2>1. \A j \in Jobs : row[j].next \in Nat
    BY <1>1 DEF Info
  <2> QED
    BY <2>1 DEF Init
<1> QED
  BY <1>1, <1>2, BlankType DEF Init, TypeOK, NoStart

\* TypeOK is inductive: no step of the threads, of InfoService or of the process leaves it.
LEMMA NextType == TypeOK /\ [Next]_vars => TypeOK'
<1> SUFFICES ASSUME TypeOK, [Next]_vars PROVE TypeOK'
  OBVIOUS
<1> USE DEF TypeOK
<1>1. CASE UNCHANGED vars
  BY <1>1 DEF vars, scanVars, trigVars, bounds, history
<1>2. CASE Tick
  <2>1. clock' \in Nat
    BY <1>2 DEF Tick
  <2>2. UNCHANGED <<row, starting, ring, scanVars, trigVars, downAt, history, bounds>>
    BY <1>2 DEF Tick
  <2> QED
    BY <2>1, <2>2 DEF scanVars, trigVars, bounds, history
<1>3. CASE EndOfModel
  BY <1>3 DEF EndOfModel, vars, scanVars, trigVars, bounds, history
<1>4. CASE InfoService
  <2>1. PICK j \in Jobs : \/ StartRead(j) \/ StartWrite(j) \/ Stop(j) \/ Delete(j)
                          \/ \E c \in Crons : SaveOrUpdate(j, c)
                          \/ \E k \in Jobs : Copy(j, k)
    BY <1>4 DEF InfoService
  <2>2. /\ ops' \in Nat /\ row' \in [Jobs -> Info]
        /\ starting' \in [Jobs -> [next: Nat, at: Nat]] /\ since' \in [Jobs -> Nat]
    <3>1. row[j] \in Info /\ row[j].cron \in Crons
      BY DEF Info
    <3>2. CASE StartRead(j)
      <4>1. StartFrom \in Nat
        BY DEF StartFrom
      <4>2. NextValidTimeAfter(row[j].cron, StartFrom) \in Nat
        BY <3>1, <4>1, NextValidTimeAfterLater
      <4>3. starting' \in [Jobs -> [next: Nat, at: Nat]]
        <5>1. starting' = [starting EXCEPT ![j] =
                [next |-> NextValidTimeAfter(row[j].cron, StartFrom), at |-> clock]]
          BY <3>2 DEF StartRead
        <5> QED
          BY <4>2, <5>1
      <4>4. ops' = ops + 1 /\ UNCHANGED <<row, history>>
        BY <3>2 DEF StartRead, Operation
      <4> QED
        BY <4>3, <4>4 DEF history
    <3>3. CASE StartWrite(j)
      <4>1. [row EXCEPT ![j].st = "RUNNING", ![j].last = 0, ![j].next = starting[j].next]
              \in [Jobs -> Info]
        BY <3>1 DEF Info, Status
      <4>2. row' \in [Jobs -> Info]
        BY <3>3, <4>1 DEF StartWrite
      <4> QED
        BY <3>3, <4>2 DEF StartWrite, NoStart, bounds
    <3>4. ASSUME Stop(j) \/ Delete(j) \/ \E c \in Crons : SaveOrUpdate(j, c)
          PROVE  row' \in [Jobs -> Info] /\ ops' = ops + 1 /\ starting' = starting
                 /\ since' = [since EXCEPT ![j] = 0]
      <4>1. CASE Stop(j)
        <5>1. row' = [row EXCEPT ![j].st = "STOPPED", ![j].last = 0, ![j].next = 0]
          BY <4>1 DEF Stop
        <5>2. row' \in [Jobs -> Info]
          BY <3>1, <5>1 DEF Info, Status
        <5> QED
          BY <4>1, <5>2 DEF Stop, Operation
      <4>2. CASE Delete(j)
        <5>1. row' = [row EXCEPT ![j].st = "GONE", ![j].last = 0, ![j].next = 0]
          BY <4>2 DEF Delete
        <5>2. row' \in [Jobs -> Info]
          BY <3>1, <5>1 DEF Info, Status
        <5> QED
          BY <4>2, <5>2 DEF Delete, Operation
      <4>3. ASSUME NEW c \in Crons, SaveOrUpdate(j, c)
            PROVE  row' \in [Jobs -> Info] /\ ops' = ops + 1 /\ starting' = starting
                   /\ since' = [since EXCEPT ![j] = 0]
        <5>1. row' = [row EXCEPT ![j] = [st |-> "STOPPED", last |-> 0, next |-> 0,
                                         cron |-> c]]
          BY <4>3 DEF SaveOrUpdate
        <5>2. row' \in [Jobs -> Info]
          BY <5>1 DEF Info, Status
        <5> QED
          BY <4>3, <5>2 DEF SaveOrUpdate, Operation
      <4> QED
        BY <3>4, <4>1, <4>2, <4>3
    <3>5. ASSUME NEW k \in Jobs, Copy(j, k)
          PROVE  row' \in [Jobs -> Info] /\ ops' = ops + 1
                 /\ starting' = starting /\ since' = since
      <4>1. row' = [row EXCEPT ![k] = [st |-> "STOPPED", last |-> 0, next |-> 0,
                                       cron |-> row[j].cron]]
        BY <3>5 DEF Copy
      <4>2. row' \in [Jobs -> Info]
        BY <3>1, <4>1 DEF Info, Status
      <4> QED
        BY <3>5, <4>2 DEF Copy, Operation, history
    <3>6. CASE StartRead(j) \/ StartWrite(j)
      BY <3>2, <3>3, <3>6
    <3>7. CASE Stop(j) \/ Delete(j) \/ \E c \in Crons : SaveOrUpdate(j, c)
      <4>1. row' \in [Jobs -> Info] /\ ops' = ops + 1 /\ starting' = starting
            /\ since' = [since EXCEPT ![j] = 0]
        BY <3>4, <3>7
      <4> QED
        BY <4>1
    <3>8. CASE \E k \in Jobs : Copy(j, k)
      BY <3>5, <3>8
    <3> QED
      BY <2>1, <3>6, <3>7, <3>8
  <2>3. UNCHANGED <<clock, ring, scanVars, trigVars, downAt, pushed, fails>>
    BY <2>1 DEF StartRead, StartWrite, Stop, Delete, SaveOrUpdate, Copy, history, bounds
  <2> QED
    BY <2>2, <2>3 DEF scanVars, trigVars
<1>5. CASE ScanStep
  BY <1>5, ScanStepType
<1>6. CASE ScanException
  <2>1. fails' \in Nat /\ scanPc' \in {"sleep", "end"} /\ wake' = clock
    BY <1>6 DEF ScanException, ScanReturn
  <2>2. UNCHANGED <<scanKeeps, row, ring, jobIds, pushed, scanRunning>> /\ NoLocals
    BY <1>6 DEF ScanException, ScanReturn
  <2> QED
    BY <2>1, <2>2, BlankType DEF scanKeeps, NoLocals
<1>7. CASE TrigStep
  BY <1>7, TrigStepType
<1>8. CASE TrigException
  <2>1. /\ trigPc' \in {"sleep", "end"} /\ trigNow' \in Nat /\ jobIds' = {}
        /\ downAt' \in Nat /\ fails' \in Nat
    BY <1>8 DEF TrigException, TrigReturn
  <2>2. held' \in {held, "lost"}
    BY <1>8 DEF TrigException, TrigReturn
  <2>3. UNCHANGED <<clock, row, starting, scanRunning, scanPc, wake, nowTime, jobInfos,
                    picked, mem, cur, ops, ring, trigRunning, history>>
    BY <1>8 DEF TrigException, TrigReturn
  <2> QED
    BY <2>1, <2>2, <2>3 DEF history
<1>9. CASE StopScan
  BY <1>9 DEF StopScan, scanKeeps
<1>10. CASE StopTrigger
  BY <1>10 DEF StopTrigger, scanVars, bounds, history
<1>11. CASE Crash
  <2>1. /\ scanPc' = "end" /\ trigPc' = "end" /\ downAt' = clock
        /\ UNCHANGED <<clock, row, scanRunning, wake, trigRunning, trigNow, history, bounds>>
    BY <1>11 DEF Crash
  <2>2. NoProcess
    BY <1>11 DEF Crash
  <2> QED
    BY <2>1, <2>2, NoProcessType DEF history, bounds
<1>12. CASE Restart
  <2>1. /\ scanRunning' \in BOOLEAN /\ scanPc' = "sleep" /\ wake' = clock
        /\ trigRunning' \in BOOLEAN /\ trigPc' = "sleep" /\ trigNow' \in Nat
        /\ UNCHANGED <<clock, row, downAt, history, bounds>>
    BY <1>12 DEF Restart
  <2>2. NoProcess
    BY <1>12 DEF Restart
  <2> QED
    BY <2>1, <2>2, NoProcessType DEF history, bounds
<1> QED
  BY <1>1, <1>2, <1>3, <1>4, <1>5, <1>6, <1>7, <1>8, <1>9, <1>10, <1>11, <1>12 DEF Next

\* The variables keep their types, whatever the threads, the web calls, the
\* exceptions and the crashes do.
THEOREM TypeCorrect == Spec => []TypeOK
BY InitType, NextType, PTL DEF Spec

-----------------------------------------------------------------------------
(* Slots, and the two threads' locals *)

\* Two seconds that share a slot of the ring are at least a turn apart.
LEMMA SlotTurn ==
  ASSUME NEW t \in Nat, NEW u \in Nat, Slot(t) = Slot(u), t < u
  PROVE  u >= t + Period
<1> DEFINE k == u \div Period
           l == t \div Period
<1>1. /\ k \in Int /\ l \in Int /\ u % Period = t % Period
      /\ u = Period * k + (u % Period) /\ t = Period * l + (t % Period)
  BY DEF Slot
<1> HIDE DEF k, l
<1>2. Period * k > Period * l /\ Period * k \in Int /\ Period * l \in Int
  BY <1>1
<1>3. k > l
  BY <1>1, <1>2
<1>4. Period * k >= Period * (l + 1)
  BY <1>1, <1>3
<1>5. Period * (l + 1) = Period * l + Period
  BY <1>1
<1> QED
  BY <1>1, <1>2, <1>4, <1>5

\* The slot before that of a second is the slot of the second before.
LEMMA SlotBefore ==
  ASSUME NEW t \in Nat, Slot(t) # 0
  PROVE  t - 1 \in Nat /\ Slot(t - 1) = Slot(t) - 1
<1> DEFINE k == t \div Period
           r == t % Period
<1>1. t # 0 /\ r # 0
  BY DEF Slot
<1>2. k \in Int /\ t = Period * k + r /\ r \in 1..Period-1
  BY <1>1
<1>3. t - 1 = Period * k + (r - 1) /\ r - 1 \in 0..Period-1
  BY <1>2
<1>4. Slot(t) = r
  BY DEF Slot
<1> HIDE DEF k, r
<1>5. (Period * k + (r - 1)) % Period = r - 1
  BY <1>2
<1> QED
  BY <1>1, <1>3, <1>4, <1>5 DEF Slot

\* A push adds one record to a job's history, with the clock's second.
LEMMA PushRecord ==
  ASSUME TypeOK, NEW j \in Jobs, NEW O \in SUBSET Nat, Push(j, O)
  PROVE  /\ \A k \in Jobs : \A i \in DOMAIN pushed'[k] :
              \/ i \in DOMAIN pushed[k] /\ pushed'[k][i] = pushed[k][i]
              \/ /\ k = j /\ i = Len(pushed[j]) + 1
                 /\ pushed'[k][i].occs = O /\ pushed'[k][i].at = clock
         /\ PushedOccs(j)' = PushedOccs(j) \cup O
         /\ \A k \in Jobs \ {j} : PushedOccs(k)' = PushedOccs(k)
<1> DEFINE r == [occs |-> O, at |-> clock]
           n == Len(pushed[j])
<1>1. /\ pushed[j] \in Seq([occs: SUBSET Nat, at: Nat]) /\ n \in Nat
      /\ DOMAIN pushed[j] = 1..n /\ r \in [occs: SUBSET Nat, at: Nat]
  BY DEF TypeOK
<1>2. pushed'[j] = Append(pushed[j], r) /\ \A k \in Jobs \ {j} : pushed'[k] = pushed[k]
  BY DEF TypeOK, Push
<1>3. DOMAIN pushed'[j] = 1..n+1
  BY <1>1, <1>2
<1>4. \A i \in 1..n : pushed'[j][i] = pushed[j][i]
  BY <1>1, <1>2
<1>5. pushed'[j][n+1] = r
  BY <1>1, <1>2
<1>6. r.occs = O /\ r.at = clock
  OBVIOUS
<1> HIDE DEF r, n
<1>7. PushedOccs(j)' = PushedOccs(j) \cup O
  BY <1>1, <1>3, <1>4, <1>5, <1>6 DEF PushedOccs
<1>8. \A k \in Jobs \ {j} : PushedOccs(k)' = PushedOccs(k)
  BY <1>2 DEF PushedOccs
<1>9. ASSUME NEW k \in Jobs, NEW i \in DOMAIN pushed'[k]
      PROVE  \/ i \in DOMAIN pushed[k] /\ pushed'[k][i] = pushed[k][i]
             \/ /\ k = j /\ i = Len(pushed[j]) + 1
                /\ pushed'[k][i].occs = O /\ pushed'[k][i].at = clock
  <2>1. CASE k # j
    BY <1>2, <2>1
  <2>2. CASE k = j
    <3>1. i \in 1..n \/ i = n + 1
      BY <1>1, <1>3, <2>2
    <3> QED
      BY <1>1, <1>4, <1>5, <1>6, <2>2, <3>1 DEF n
  <2> QED
    BY <2>1, <2>2
<1> QED
  BY <1>7, <1>8, <1>9

\* The ring and the trigger thread's hands hold entries.
LEMMA EntryTypes ==
  ASSUME TypeOK
  PROVE  /\ InRing \subseteq Entry /\ jobIds \subseteq Entry
         /\ \A e \in Entry : e = <<e[1], e[2]>> /\ e[1] \in Jobs /\ e[2] \in Nat
         /\ \A j \in Jobs : PushedOccs(j) \subseteq Nat
<1>1. InRing \subseteq Entry /\ jobIds \subseteq Entry
  BY DEF TypeOK, InRing
<1>2. \A e \in Entry : e = <<e[1], e[2]>> /\ e[1] \in Jobs /\ e[2] \in Nat
  BY DEF Entry
<1>3. \A j \in Jobs : PushedOccs(j) \subseteq Nat
  <2> SUFFICES ASSUME NEW j \in Jobs, NEW i \in DOMAIN pushed[j]
               PROVE  pushed[j][i].occs \subseteq Nat
    BY DEF PushedOccs
  <2>1. pushed[j] \in Seq([occs: SUBSET Nat, at: Nat])
    BY DEF TypeOK
  <2>2. DOMAIN pushed[j] = 1..Len(pushed[j])
    BY <2>1
  <2>3. pushed[j][i] \in [occs: SUBSET Nat, at: Nat]
    BY <2>1, <2>2, ElementOfSeq
  <2> QED
    BY <2>3
<1> QED
  BY <1>1, <1>2, <1>3

\* The fields of a row, each with its type.
LEMMA FieldTypes ==
  ASSUME TypeOK, NEW j \in Jobs
  PROVE  /\ row[j].next \in Nat /\ row[j].cron \in Crons
         /\ mem[j].next \in Nat /\ mem[j].cron \in Crons
         /\ starting[j].next \in Nat /\ starting[j].at \in Nat
         /\ clock \in Nat /\ nowTime \in Nat
BY DEF TypeOK, Info

-----------------------------------------------------------------------------
(* The threads' locals *)

\* A process starts with a scan and a trigger thread that have done nothing.
LEMMA ThreadsInit == Init => ThreadsInv
<1> SUFFICES ASSUME Init PROVE ThreadsInv
  OBVIOUS
<1>1. TypeOK
  BY InitType
<1>2. ScanLocals
  BY <1>1 DEF Init, ScanLocals, TypeOK
<1>3. SlotsRight /\ Behind
  BY DEF Init, SlotsRight, Behind
<1> QED
  BY <1>1, <1>2, <1>3 DEF ThreadsInv

\* What a step leaves alone keeps its part of ThreadsInv.
LEMMA ThreadsSame ==
  ASSUME ThreadsInv
  PROVE  /\ UNCHANGED ring => SlotsRight'
         /\ UNCHANGED <<clock, trigPc, trigNow>> => Behind'
         /\ UNCHANGED <<clock, scanPc, nowTime, jobInfos, picked, mem, cur, held>> => ScanLocals'
BY DEF ThreadsInv, SlotsRight, Behind, ScanLocals, maxTriggerTime

\* A loop body leaves the scan's list shorter by j, and its copy of j refreshed or as it was.
LEMMA ThreadsLoopBody ==
  ASSUME ThreadsInv, NEW j \in jobInfos,
         ScanMissed(j) \/ ScanDueNow(j) \/ ScanLater(j)
  PROVE  /\ mem[j].st = "RUNNING" /\ mem[j].next <= nowTime + PreRead
         /\ mem[j].next \in Nat /\ mem[j] \in Info /\ InScan(j)
         /\ \E info \in Info :
              /\ \/ info.st = "RUNNING" /\ info.next >= nowTime
                 \/ info.st = "STOPPED" /\ info.next = 0
              /\ info.st = "RUNNING" => info.next >= mem[j].next
              /\ LoopBody(j, info)
              /\ \/ ScanMissed(j) /\ info = Refreshed(mem[j], clock)
                 \/ ScanDueNow(j) /\ info = Refreshed(mem[j], mem[j].next)
                 \/ ScanLater(j) /\ info = mem[j]
<1> TypeOK /\ ScanLocals
  BY DEF ThreadsInv
<1>1. scanPc = "jobs" /\ j \in Jobs
  BY DEF TypeOK, ScanMissed, ScanDueNow, ScanLater
<1>2. /\ mem[j].st = "RUNNING" /\ mem[j].next <= nowTime + PreRead
      /\ mem[j].next \in Nat /\ mem[j] \in Info /\ InScan(j)
      /\ nowTime \in Nat /\ clock \in Nat /\ nowTime <= clock
  BY <1>1 DEF TypeOK, Info, ScanLocals, maxTriggerTime, InScan
<1>3. CASE ScanMissed(j)
  <2> DEFINE info == Refreshed(mem[j], clock)
  <2>1. /\ info \in Info
        /\ \/ info.st = "STOPPED" /\ info.next = 0
           \/ info.st = "RUNNING" /\ info.next > clock
    BY <1>2, RefreshedLater
  <2>2. info.next \in Nat
    BY <2>1 DEF Info
  <2>3. LoopBody(j, info) /\ mem[j].next < nowTime
    BY <1>3 DEF ScanMissed
  <2> HIDE DEF info
  <2>4. /\ \/ info.st = "RUNNING" /\ info.next >= nowTime
           \/ info.st = "STOPPED" /\ info.next = 0
        /\ info.st = "RUNNING" => info.next >= mem[j].next
    BY <1>2, <2>1, <2>2, <2>3
  <2> QED
    BY <1>2, <1>3, <2>1, <2>3, <2>4 DEF info
<1>4. CASE ScanDueNow(j)
  <2> DEFINE info == Refreshed(mem[j], mem[j].next)
  <2>1. /\ info \in Info
        /\ \/ info.st = "STOPPED" /\ info.next = 0
           \/ info.st = "RUNNING" /\ info.next > mem[j].next
    BY <1>2, RefreshedLater
  <2>2. info.next \in Nat
    BY <2>1 DEF Info
  <2>3. LoopBody(j, info) /\ mem[j].next >= nowTime
    BY <1>4 DEF ScanDueNow, DueNow
  <2> HIDE DEF info
  <2>4. /\ \/ info.st = "RUNNING" /\ info.next >= nowTime
           \/ info.st = "STOPPED" /\ info.next = 0
        /\ info.st = "RUNNING" => info.next >= mem[j].next
    BY <1>2, <2>1, <2>2, <2>3
  <2> QED
    BY <1>2, <1>4, <2>1, <2>3, <2>4 DEF info
<1>5. CASE ScanLater(j)
  BY <1>2, <1>5 DEF ScanLater
<1> QED
  BY <1>2, <1>3, <1>4, <1>5

\* The steps of scanJob.
LEMMA ThreadsScan ==
  ASSUME ThreadsInv, ScanStep \/ ScanException
  PROVE  SlotsRight' /\ ScanLocals' /\ Behind'
<1> TypeOK
  BY DEF ThreadsInv
<1>1. CASE ScanSelect
  <2>1. /\ nowTime' = clock /\ clock' = clock /\ jobInfos' = picked' /\ mem' = row
        /\ picked' = {j \in Jobs : row[j].st = "RUNNING" /\ row[j].next <= clock + PreRead}
        /\ scanPc = "sleep" /\ scanPc' = "jobs" /\ UNCHANGED <<ring, trigPc, trigNow, held>>
    BY <1>1 DEF ScanSelect, scanKeeps
  <2>2. held' = "none" /\ clock \in Nat
    BY <2>1 DEF TypeOK, ThreadsInv, ScanLocals
  <2>3. ScanLocals'
    BY <2>1, <2>2 DEF ScanLocals, maxTriggerTime
  <2> QED
    BY <2>1, <2>3, ThreadsSame
<1>2. CASE ScanGetSet \/ ScanNextJob \/ ScanUpdates
  <2>1. UNCHANGED <<clock, ring, trigPc, trigNow, nowTime, picked, mem, cur>>
    BY <1>2 DEF ScanGetSet, ScanNextJob, ScanUpdates, scanKeeps
  <2>2. ScanLocals'
    BY <1>2, <2>1 DEF ScanGetSet, ScanNextJob, ScanUpdates, ThreadsInv, ScanLocals, maxTriggerTime
  <2> QED
    BY <2>1, <2>2, ThreadsSame
<1>3. CASE ScanAdd
  <2> DEFINE t == mem[cur].next
             info == Refreshed(mem[cur], t)
  <2>1. /\ cur \in Jobs /\ mem[cur] \in Info /\ t \in Nat /\ nowTime \in Nat
        /\ Slot(t) \in 0..Period-1
    BY SlotType DEF TypeOK, Info
  <2>2. /\ scanPc = "add" /\ scanPc' = "while" /\ held' = "none"
        /\ mem' = [mem EXCEPT ![cur] = info]
        /\ UNCHANGED <<clock, nowTime, jobInfos, picked, cur, trigNow>>
        /\ trigPc' \in {trigPc, "sleep"}
    BY <1>3 DEF ScanAdd
  <2>3. /\ info \in Info
        /\ \/ info.st = "STOPPED" /\ info.next = 0
           \/ info.st = "RUNNING" /\ info.next > t
    BY <2>1, RefreshedLater
  <2>4. ring' \in {ring, [ring EXCEPT ![Slot(t)] = @ \cup {<<cur, t>>}]}
    BY <1>3 DEF ScanAdd
  <2>5. mem'[cur] = info /\ \A k \in Jobs \ {cur} : mem'[k] = mem[k]
    BY <2>1, <2>2 DEF TypeOK
  <2>6. info.next \in Nat
    BY <2>3 DEF Info
  <2> HIDE DEF info
  <2>7. t >= nowTime
    BY <2>1, <2>2 DEF ThreadsInv, ScanLocals
  <2>8. info.st = "RUNNING" => info.next >= nowTime
    BY <2>1, <2>3, <2>6, <2>7
  <2>9. ScanLocals'
    <3>1. /\ jobInfos \subseteq Jobs /\ jobInfos \subseteq picked /\ nowTime <= clock
          /\ cur \in picked \ jobInfos
          /\ \A k \in jobInfos : mem[k].st = "RUNNING" /\ mem[k].next <= maxTriggerTime
      BY <2>2 DEF TypeOK, ThreadsInv, ScanLocals
    <3> QED
      BY <2>2, <2>3, <2>5, <2>8, <3>1 DEF ScanLocals, maxTriggerTime
  <2>10. SlotsRight'
    <3>1. <<cur, t>>[2] = t
      OBVIOUS
    <3>2. \A s \in 0..Period-1 : \A e \in ring'[s] :
            e \in ring[s] \/ (s = Slot(t) /\ e = <<cur, t>>)
      BY <2>1, <2>4 DEF TypeOK
    <3> QED
      BY <3>1, <3>2 DEF ThreadsInv, SlotsRight
  <2>11. Behind'
    BY <2>2 DEF ThreadsInv, Behind
  <2> QED
    BY <2>9, <2>10, <2>11
<1>4. ASSUME NEW j \in Jobs, ScanMissed(j) \/ ScanDueNow(j) \/ ScanLater(j)
      PROVE  SlotsRight' /\ ScanLocals' /\ Behind'
  <2>1. j \in jobInfos /\ scanPc = "jobs"
    BY <1>4 DEF ScanMissed, ScanDueNow, ScanLater
  <2>2. PICK info \in Info :
           /\ LoopBody(j, info)
           /\ \/ info.st = "RUNNING" /\ info.next >= nowTime
              \/ info.st = "STOPPED" /\ info.next = 0
    BY <1>4, <2>1, ThreadsLoopBody
  <2>3. /\ scanPc' = "while" /\ cur' = j /\ jobInfos' = jobInfos \ {j}
        /\ mem' = [mem EXCEPT ![j] = info]
        /\ UNCHANGED <<clock, nowTime, picked, held, ring, trigPc, trigNow>>
    BY <2>2 DEF LoopBody, scanKeeps
  <2>4. mem'[j] = info /\ \A k \in Jobs \ {j} : mem'[k] = mem[k]
    BY <2>3 DEF TypeOK
  <2>5. ScanLocals'
    <3>1. /\ jobInfos \subseteq Jobs /\ jobInfos \subseteq picked /\ nowTime <= clock
          /\ \A k \in jobInfos : mem[k].st = "RUNNING" /\ mem[k].next <= maxTriggerTime
          /\ held = "none"
      BY <2>1 DEF TypeOK, ThreadsInv, ScanLocals
    <3> QED
      BY <2>1, <2>2, <2>3, <2>4, <3>1 DEF ScanLocals, maxTriggerTime
  <2> QED
    BY <2>3, <2>5, ThreadsSame
<1>5. ASSUME NEW j \in Jobs, ScanUpdate(j)
      PROVE  SlotsRight' /\ ScanLocals' /\ Behind'
  <2>1. /\ scanPc = "update" /\ jobInfos' = jobInfos \ {j}
        /\ UNCHANGED <<clock, ring, trigPc, trigNow, scanPc, nowTime, picked, held>>
    BY <1>5 DEF ScanUpdate, scanKeeps
  <2>2. ScanLocals'
    BY <2>1 DEF ThreadsInv, ScanLocals
  <2> QED
    BY <2>1, <2>2, ThreadsSame
<1>6. CASE ScanRest \/ ScanException
  <2>1. /\ scanPc' \in {"sleep", "end"} /\ nowTime' = 0 /\ jobInfos' = {} /\ held' = "none"
        /\ UNCHANGED <<clock, ring, trigPc, trigNow>>
    BY <1>6 DEF ScanRest, ScanException, ScanReturn, NoLocals, scanKeeps
  <2>2. ScanLocals'
    BY <2>1 DEF TypeOK, ScanLocals
  <2> QED
    BY <2>1, <2>2, ThreadsSame
<1> QED
  BY <1>1, <1>2, <1>3, <1>4, <1>5, <1>6 DEF ScanStep

\* The steps of triggerJob that take a slot name it by a second that is past.
LEMMA TakeOf ==
  ASSUME ThreadsInv, TakePrevious \/ TakeCurrent
  PROVE  /\ trigPc \in {"read", "previous"} /\ trigPc' \in {"previous", "current"}
         /\ UNCHANGED <<trigKeeps, trigRunning, trigNow, pushed, fails>>
         /\ \/ \E t \in Nat : /\ TakeSlot(Slot(t)) /\ Slot(t) \in 0..Period-1
                              /\ t = trigNow \/ (t = trigNow - 1 /\ TakePrevious)
            \/ UNCHANGED <<ring, held, jobIds>> /\ TakePrevious
<1> trigNow \in Nat
  BY DEF ThreadsInv, TypeOK
<1>1. CASE TakeCurrent
  <2>1. TakeSlot(Slot(trigNow))
    BY <1>1 DEF TakeCurrent
  <2>2. Slot(trigNow) \in 0..Period-1
    BY SlotType
  <2> QED
    BY <1>1, <2>1, <2>2 DEF TakeCurrent
<1>2. CASE TakePrevious
  <2>1. CASE Slot(trigNow) = 0
    BY <1>2, <2>1 DEF TakePrevious
  <2>2. CASE Slot(trigNow) # 0
    <3>1. TakeSlot(Slot(trigNow) - 1)
      BY <1>2, <2>2 DEF TakePrevious
    <3>2. trigNow - 1 \in Nat /\ Slot(trigNow - 1) = Slot(trigNow) - 1
      BY <2>2, SlotBefore
    <3>3. TakeSlot(Slot(trigNow - 1)) /\ Slot(trigNow - 1) \in 0..Period-1
      BY <3>1, <3>2, SlotType
    <3> QED
      BY <1>2, <3>2, <3>3 DEF TakePrevious
  <2> QED
    BY <2>1, <2>2
<1> QED
  BY <1>1, <1>2

\* The steps of triggerJob.
LEMMA ThreadsTrig ==
  ASSUME ThreadsInv, TrigStep \/ TrigException
  PROVE  SlotsRight' /\ ScanLocals' /\ Behind'
<1> TypeOK
  BY DEF ThreadsInv
<1>1. UNCHANGED <<clock, scanPc, nowTime, jobInfos, picked, mem, cur>>
  BY DEF TrigStep, TrigRead, TakePrevious, TakeCurrent, TrigRest, TrigPush, TrigException,
         TrigReturn, trigKeeps
<1>2. CASE TrigRead
  <2>1. trigNow' = clock /\ UNCHANGED <<ring, held>>
    BY <1>2 DEF TrigRead
  <2>2. clock \in Nat
    BY DEF TypeOK
  <2>3. Behind'
    BY <1>1, <2>1, <2>2 DEF Behind
  <2> QED
    BY <1>1, <2>1, <2>3, ThreadsSame
<1>3. CASE TakePrevious \/ TakeCurrent
  <2>1. /\ trigPc \in {"read", "previous"}
        /\ UNCHANGED <<trigKeeps, trigRunning, trigNow, pushed, fails>>
        /\ \/ \E t \in Nat : TakeSlot(Slot(t)) /\ Slot(t) \in 0..Period-1
           \/ UNCHANGED <<ring, held, jobIds>>
    BY <1>3, TakeOf
  <2>2. Behind'
    BY <1>1, <2>1 DEF ThreadsInv, Behind
  <2>3. SlotsRight'
    <3>1. \A s \in 0..Period-1 : ring'[s] \subseteq ring[s]
      BY <2>1 DEF TakeSlot, TypeOK
    <3> QED
      BY <3>1 DEF ThreadsInv, SlotsRight
  <2>4. ScanLocals'
    <3>1. held = "none" <=> held' = "none"
      BY <2>1 DEF TakeSlot
    <3> QED
      BY <1>1, <3>1 DEF ThreadsInv, ScanLocals, maxTriggerTime
  <2> QED
    BY <2>2, <2>3, <2>4
<1>4. CASE TrigRest \/ TrigException
  <2>1. trigPc' \in {"sleep", "end"} /\ UNCHANGED ring /\ (held = "none" <=> held' = "none")
    BY <1>4 DEF TrigRest, TrigException, TrigReturn
  <2>2. Behind'
    BY <2>1 DEF Behind
  <2>3. ScanLocals'
    BY <1>1, <2>1 DEF ThreadsInv, ScanLocals, maxTriggerTime
  <2> QED
    BY <2>1, <2>2, <2>3, ThreadsSame
<1>5. ASSUME NEW j \in Jobs, TrigPush(j)
      PROVE  SlotsRight' /\ ScanLocals' /\ Behind'
  <2>1. UNCHANGED <<ring, held, trigPc, trigNow>>
    BY <1>5 DEF TrigPush
  <2> QED
    BY <1>1, <2>1, ThreadsSame
<1> QED
  BY <1>2, <1>3, <1>4, <1>5 DEF TrigStep

\* ThreadsInv is inductive, whatever fails, stops or dies.
LEMMA ThreadsNext == ThreadsInv /\ [Next]_vars => ThreadsInv'
<1> SUFFICES ASSUME ThreadsInv, [Next]_vars PROVE ThreadsInv'
  OBVIOUS
<1> TypeOK
  BY DEF ThreadsInv
<1>1. TypeOK'
  BY NextType DEF ThreadsInv
<1>2. CASE ScanStep \/ ScanException
  BY <1>1, <1>2, ThreadsScan DEF ThreadsInv
<1>3. CASE TrigStep \/ TrigException
  BY <1>1, <1>3, ThreadsTrig DEF ThreadsInv
<1>4. CASE Tick
  <2>1. clock' = clock + 1 /\ clock \in Nat /\ nowTime \in Nat /\ trigNow \in Nat
    BY <1>4 DEF Tick, TypeOK
  <2>2. UNCHANGED <<ring, scanVars, trigVars>>
    BY <1>4 DEF Tick
  <2>3. Behind'
    <3>1. trigPc # "end" => clock < trigNow + TrigLag
      BY <1>4 DEF Tick, Up
    <3> QED
      BY <2>1, <2>2, <3>1 DEF ThreadsInv, Behind, trigVars
  <2>4. ScanLocals'
    <3>1. nowTime <= clock'
      BY <2>1 DEF ThreadsInv, ScanLocals
    <3> QED
      BY <2>2, <3>1 DEF ThreadsInv, ScanLocals, scanVars, maxTriggerTime
  <2> QED
    BY <1>1, <2>2, <2>3, <2>4, ThreadsSame DEF ThreadsInv
<1>5. CASE InfoService \/ EndOfModel \/ UNCHANGED vars
  <2>1. UNCHANGED <<clock, ring, scanVars, trigVars>>
    BY <1>5 DEF InfoService, StartRead, StartWrite, Stop, Delete, SaveOrUpdate, Copy,
                EndOfModel, vars
  <2> QED
    BY <1>1, <2>1, ThreadsSame DEF ThreadsInv, scanVars, trigVars
<1>6. CASE StopScan
  <2>1. /\ UNCHANGED <<clock, ring, trigPc, trigNow, nowTime, jobInfos, picked, mem, cur, held>>
        /\ scanPc' = IF scanPc = "sleep" THEN "end" ELSE scanPc
    BY <1>6 DEF StopScan, scanKeeps
  <2>2. ScanLocals'
    BY <2>1 DEF ThreadsInv, ScanLocals, maxTriggerTime
  <2> QED
    BY <1>1, <2>1, <2>2, ThreadsSame DEF ThreadsInv
<1>7. CASE StopTrigger
  <2>1. UNCHANGED <<clock, ring, scanVars, trigNow>> /\ trigPc' \in {trigPc, "end"}
    BY <1>7 DEF StopTrigger
  <2>2. Behind'
    BY <2>1 DEF ThreadsInv, Behind
  <2> QED
    BY <1>1, <2>1, <2>2, ThreadsSame DEF ThreadsInv, scanVars
<1>8. CASE Crash \/ Restart
  <2>1. /\ ring' = [s \in 0..Period-1 |-> {}] /\ jobInfos' = {} /\ picked' = {}
        /\ nowTime' = 0 /\ held' = "none" /\ clock' = clock
        /\ scanPc' \in {"sleep", "end"} /\ trigPc' \in {"sleep", "end"}
    BY <1>8 DEF Crash, Restart, NoProcess, NoLocals
  <2>2. SlotsRight' /\ Behind'
    BY <2>1 DEF SlotsRight, Behind
  <2>3. ScanLocals'
    BY <2>1 DEF ScanLocals, TypeOK
  <2> QED
    BY <1>1, <2>2, <2>3 DEF ThreadsInv
<1> QED
  BY <1>2, <1>3, <1>4, <1>5, <1>6, <1>7, <1>8 DEF Next

-----------------------------------------------------------------------------
(* Not early *)

\* A start finds nothing planned.
LEMMA EarlyInit == Init => EarlyInv
<1> SUFFICES ASSUME Init PROVE EarlyInv
  OBVIOUS
<1>1. InRing = {} /\ jobIds = {} /\ \A j \in Jobs : PushedOccs(j) = {}
  BY DEF Init, InRing, PushedOccs
<1>2. held = "none" /\ \A j \in Jobs : pushed[j] = << >>
  BY DEF Init
<1>3. Come
  BY <1>1, <1>2 DEF Come
<1>4. NotEarly
  BY <1>2 DEF NotEarly
<1> QED
  BY <1>3, <1>4, ThreadsInit DEF EarlyInv

\* A slot of the second that is on, or of the one before, holds nothing of the next turn.
LEMMA TakenHasCome ==
  ASSUME TrigLag + PreRead + 1 < Period, EarlyInv,
         trigPc \in {"read", "previous"}, NEW t \in Nat, t \in {trigNow, trigNow - 1},
         NEW o \in Nat, Slot(o) = Slot(t), o <= clock + PreRead
  PROVE  o <= clock
<1>1. /\ clock \in Nat /\ trigNow \in Nat
      /\ trigNow <= clock /\ clock <= trigNow + TrigLag
  BY DEF EarlyInv, ThreadsInv, TypeOK, Behind
<1>2. o > t => o >= t + Period
  BY SlotTurn
<1> QED
  BY <1>1, <1>2

\* What is pushed when its second has come is not early.
LEMMA PushHasCome ==
  ASSUME EarlyInv, clock' = clock, NEW j \in Jobs, NEW O \in SUBSET Nat, Push(j, O),
         \A o \in O : o <= clock
  PROVE  NotEarly' /\ \A k \in Jobs : \A o \in PushedOccs(k)' : o <= clock
<1> TypeOK
  BY DEF EarlyInv, ThreadsInv
<1>1. /\ \A k \in Jobs : \A i \in DOMAIN pushed'[k] :
           \/ i \in DOMAIN pushed[k] /\ pushed'[k][i] = pushed[k][i]
           \/ k = j /\ pushed'[k][i].occs = O /\ pushed'[k][i].at = clock
      /\ PushedOccs(j)' = PushedOccs(j) \cup O
      /\ \A k \in Jobs \ {j} : PushedOccs(k)' = PushedOccs(k)
  BY PushRecord
<1>2. NotEarly'
  BY <1>1 DEF EarlyInv, NotEarly
<1>3. \A k \in Jobs : \A o \in PushedOccs(k) : o <= clock
  BY DEF EarlyInv, Come
<1>4. \A k \in Jobs : \A o \in PushedOccs(k)' : o <= clock
  BY <1>1, <1>3
<1> QED
  BY <1>2, <1>4

\* What does not push, take or put, and lets no second pass but forwards.
LEMMA EarlySame ==
  ASSUME EarlyInv, TypeOK',
         UNCHANGED pushed, ring' = ring \/ InRing' = {},
         jobIds' = jobIds \/ jobIds' = {}, clock' >= clock,
         held' \in {"iterated", "lost"} => held \in {"iterated", "lost"} /\ UNCHANGED <<mem, cur>>
  PROVE  Come' /\ NotEarly'
<1> TypeOK
  BY DEF EarlyInv, ThreadsInv
<1>1. /\ InRing' \subseteq InRing /\ jobIds' \subseteq jobIds
      /\ \A j \in Jobs : PushedOccs(j)' = PushedOccs(j)
  BY DEF InRing, PushedOccs
<1>2. clock \in Nat /\ clock' \in Nat
  BY DEF TypeOK
<1>3. \A n \in Nat : n <= clock + PreRead => n <= clock' + PreRead
  <2>1. \A a, b, c, n \in Nat : a <= b /\ n <= a + c => n <= b + c
    OBVIOUS
  <2>2. PreRead \in Nat /\ clock <= clock'
    BY <1>2
  <2> QED
    BY <1>2, <2>1, <2>2
<1>4. \A n \in Nat : n <= clock => n <= clock'
  BY <1>2
<1>5. \A e \in InRing' : e[2] <= clock' + PreRead
  BY <1>1, <1>3, EntryTypes DEF EarlyInv, Come
<1>6. \A e \in jobIds' : e[2] <= clock'
  BY <1>1, <1>4, EntryTypes DEF EarlyInv, Come
<1>7. \A j \in Jobs : \A o \in PushedOccs(j)' : o <= clock'
  BY <1>1, <1>4, EntryTypes DEF EarlyInv, Come
<1>8. held' \in {"iterated", "lost"} => mem'[cur'].next <= clock'
  <2>1. mem[cur].next \in Nat
    BY DEF TypeOK, Info
  <2> QED
    BY <1>4, <2>1 DEF EarlyInv, Come
<1>9. Come'
  BY <1>5, <1>6, <1>7, <1>8 DEF Come
<1>10. NotEarly'
  BY DEF EarlyInv, NotEarly
<1> QED
  BY <1>9, <1>10

\* The direct push is for the second in which the scan began.
LEMMA EarlyDueNow ==
  ASSUME EarlyInv, NEW j \in Jobs, ScanDueNow(j)
  PROVE  Come' /\ NotEarly' /\ mem[j].next = nowTime
<1> TypeOK /\ ThreadsInv
  BY DEF EarlyInv, ThreadsInv
<1>1. /\ scanPc = "jobs" /\ j \in jobInfos /\ DueNow(j) /\ Push(j, {mem[j].next})
      /\ UNCHANGED <<clock, ring, jobIds, held>>
  BY DEF ScanDueNow, LoopBody, scanKeeps
<1>2. /\ mem[j].next <= nowTime + PreRead /\ mem[j].next \in Nat
      /\ nowTime \in Nat /\ clock \in Nat /\ nowTime <= clock /\ held = "none"
  BY <1>1, ThreadsLoopBody DEF TypeOK, ThreadsInv, ScanLocals
<1>3. mem[j].next = nowTime
  <2>1. mem[j].next >= nowTime /\ Slot(mem[j].next) = Slot(nowTime)
    BY <1>1 DEF DueNow
  <2>2. nowTime < mem[j].next => mem[j].next >= nowTime + Period
    BY <1>2, <2>1, SlotTurn
  <2> QED
    BY <1>2, <2>1, <2>2
<1>4. NotEarly' /\ \A k \in Jobs : \A o \in PushedOccs(k)' : o <= clock
  BY <1>1, <1>2, <1>3, PushHasCome
<1>5. InRing' = InRing
  BY <1>1 DEF InRing
<1>6. Come'
  BY <1>1, <1>2, <1>4, <1>5 DEF EarlyInv, Come
<1> QED
  BY <1>3, <1>4, <1>6

\* What the scan puts into the ring is no further ahead than it reads.
LEMMA EarlyAdd ==
  ASSUME EarlyInv, ScanAdd
  PROVE  Come' /\ NotEarly'
<1> TypeOK
  BY DEF EarlyInv, ThreadsInv
<1> DEFINE t == mem[cur].next
           e == <<cur, t>>
<1>1. /\ cur \in Jobs /\ t \in Nat /\ nowTime \in Nat /\ clock \in Nat
      /\ Slot(t) \in 0..Period-1
  BY SlotType DEF TypeOK, Info
<1>2. t <= clock + PreRead
  <2>1. t <= nowTime + PreRead /\ nowTime <= clock
    BY DEF ScanAdd, EarlyInv, ThreadsInv, ScanLocals, maxTriggerTime
  <2> QED
    BY <1>1, <2>1
<1>3. /\ held' = "none" /\ UNCHANGED <<clock, pushed>>
      /\ \/ ring' = [ring EXCEPT ![Slot(t)] = @ \cup {e}] /\ jobIds' = jobIds
         \/ ring' = ring /\ jobIds' \in {jobIds, {}}
         \/ ring' = ring /\ held = "iterated" /\ jobIds' = jobIds \cup {e}
  BY DEF ScanAdd, history
<1>4. InRing' \subseteq InRing \cup {e}
  <2>1. \A s \in 0..Period-1 : ring'[s] \subseteq ring[s] \cup {e}
    BY <1>1, <1>3 DEF TypeOK
  <2> QED
    BY <2>1 DEF InRing
<1>5. jobIds' \subseteq jobIds \/ (jobIds' = jobIds \cup {e} /\ t <= clock)
  BY <1>3 DEF EarlyInv, Come
<1>6. e[2] = t
  OBVIOUS
<1>7. \A j \in Jobs : PushedOccs(j)' = PushedOccs(j)
  BY <1>3 DEF PushedOccs
<1> HIDE DEF e, t
<1>8. Come'
  BY <1>2, <1>3, <1>4, <1>5, <1>6, <1>7 DEF EarlyInv, Come
<1>9. NotEarly'
  BY <1>3 DEF EarlyInv, NotEarly
<1> QED
  BY <1>8, <1>9

\* What the trigger thread takes has come.
LEMMA EarlyTake ==
  ASSUME TrigLag + PreRead + 1 < Period, EarlyInv, TypeOK', TakePrevious \/ TakeCurrent
  PROVE  Come' /\ NotEarly'
<1> TypeOK /\ ThreadsInv
  BY DEF EarlyInv, ThreadsInv
<1>1. /\ trigPc \in {"read", "previous"}
      /\ UNCHANGED <<clock, pushed, mem, cur>>
      /\ \/ \E t \in Nat : /\ TakeSlot(Slot(t)) /\ Slot(t) \in 0..Period-1
                           /\ t \in {trigNow, trigNow - 1}
         \/ UNCHANGED <<ring, held, jobIds>>
  BY TakeOf DEF trigKeeps
<1>2. CASE UNCHANGED <<ring, held, jobIds>>
  <2>1. clock' >= clock
    BY <1>1 DEF TypeOK
  <2> QED
    BY <1>1, <1>2, <2>1, EarlySame
<1>3. ASSUME NEW t \in Nat, TakeSlot(Slot(t)), Slot(t) \in 0..Period-1,
             t \in {trigNow, trigNow - 1}
      PROVE  Come' /\ NotEarly'
  <2>1. \A o \in Nat : Slot(o) = Slot(t) /\ o <= clock + PreRead => o <= clock
    BY <1>1, <1>3, TakenHasCome
  <2>2. InRing' \subseteq InRing /\ jobIds' = ring[Slot(t)] /\ ring[Slot(t)] \subseteq InRing
    BY <1>3 DEF TakeSlot, InRing, TypeOK
  <2>3. \A e \in jobIds' : e[2] <= clock
    <3> SUFFICES ASSUME NEW e \in ring[Slot(t)] PROVE e[2] <= clock
      BY <2>2
    <3>1. e \in InRing /\ e[2] \in Nat
      BY <2>2, EntryTypes
    <3>2. e[2] <= clock + PreRead /\ Slot(e[2]) = Slot(t)
      BY <1>3, <3>1 DEF EarlyInv, Come, ThreadsInv, SlotsRight
    <3> QED
      BY <2>1, <3>1, <3>2
  <2>4. held' \in {"iterated", "lost"} => mem[cur].next <= clock
    <3>1. CASE held = "ring" /\ Slot(mem[cur].next) = Slot(t)
      <4>1. mem[cur].next <= nowTime + PreRead /\ nowTime <= clock
        BY <3>1 DEF ThreadsInv, ScanLocals, maxTriggerTime
      <4>2. mem[cur].next \in Nat /\ nowTime \in Nat /\ clock \in Nat
        BY DEF TypeOK, Info
      <4>3. mem[cur].next <= clock + PreRead
        BY <4>1, <4>2
      <4> QED
        BY <2>1, <3>1, <4>2, <4>3
    <3>2. CASE ~(held = "ring" /\ Slot(mem[cur].next) = Slot(t))
      <4>1. held' \in {"iterated", "lost"} => held \in {"iterated", "lost"}
        BY <1>3, <3>2 DEF TakeSlot
      <4> QED
        BY <4>1 DEF EarlyInv, Come
    <3> QED
      BY <3>1, <3>2
  <2>5. \A j \in Jobs : PushedOccs(j)' = PushedOccs(j)
    BY <1>1 DEF PushedOccs
  <2>6. Come'
    BY <1>1, <2>2, <2>3, <2>4, <2>5 DEF EarlyInv, Come
  <2>7. NotEarly'
    BY <1>1 DEF EarlyInv, NotEarly
  <2> QED
    BY <2>6, <2>7
<1> QED
  BY <1>1, <1>2, <1>3

\* The push of what the thread took.
LEMMA EarlyPush ==
  ASSUME EarlyInv, NEW j \in Jobs, TrigPush(j)
  PROVE  Come' /\ NotEarly'
<1> TypeOK
  BY DEF EarlyInv, ThreadsInv
<1> DEFINE O == Of(j, jobIds)
<1>1. /\ Push(j, O) /\ jobIds' \subseteq jobIds
      /\ UNCHANGED <<clock, ring, mem, cur, held>>
  BY DEF TrigPush, trigKeeps
<1>2. \A o \in O : o \in Nat /\ <<j, o>> \in jobIds
  BY EntryTypes DEF Of
<1>3. \A o \in O : o <= clock
  <2>1. \A o \in O : <<j, o>>[2] = o
    OBVIOUS
  <2> QED
    BY <1>2, <2>1 DEF EarlyInv, Come
<1> HIDE DEF O
<1>4. NotEarly' /\ \A k \in Jobs : \A o \in PushedOccs(k)' : o <= clock
  BY <1>1, <1>2, <1>3, PushHasCome
<1>5. InRing' = InRing
  BY <1>1 DEF InRing
<1>6. Come'
  BY <1>1, <1>4, <1>5 DEF EarlyInv, Come
<1> QED
  BY <1>4, <1>6

\* EarlyInv is inductive: with the trigger thread late by less than a turn of the ring
\* leaves beyond the read-ahead, and with any exceptions, stops and crashes.
LEMMA EarlyNext ==
  ASSUME TrigLag + PreRead + 1 < Period, EarlyInv, [Next]_vars
  PROVE  EarlyInv'
<1> ThreadsInv /\ TypeOK
  BY DEF EarlyInv, ThreadsInv
<1>1. ThreadsInv' /\ TypeOK'
  BY ThreadsNext DEF ThreadsInv
<1>2. clock \in Nat /\ \A n \in Nat : n + 1 >= n /\ n >= n
  BY DEF TypeOK
<1>3. ASSUME ScanStep PROVE Come' /\ NotEarly'
  <2>1. CASE ScanSelect \/ ScanGetSet \/ ScanNextJob \/ ScanUpdates \/ ScanRest
    <3>1. UNCHANGED <<clock, ring, jobIds, pushed>>
      BY <2>1 DEF ScanSelect, ScanGetSet, ScanNextJob, ScanUpdates, ScanRest, ScanReturn, scanKeeps
    <3>2. (held' = held /\ held = "none") \/ held' \in {"ring", "none"}
      BY <2>1 DEF ScanSelect, ScanGetSet, ScanNextJob, ScanUpdates, ScanRest, ScanReturn,
                  NoLocals, ThreadsInv, ScanLocals
    <3> QED
      BY <1>1, <1>2, <3>1, <3>2, EarlySame
  <2>2. CASE ScanAdd
    BY <2>2, EarlyAdd
  <2>3. ASSUME NEW j \in Jobs, ScanMissed(j) \/ ScanLater(j) \/ ScanUpdate(j)
        PROVE  Come' /\ NotEarly'
    <3>1. /\ UNCHANGED <<clock, ring, jobIds, pushed, held>>
          /\ scanPc \in {"jobs", "update"}
      BY <2>3 DEF ScanMissed, ScanLater, ScanUpdate, LoopBody, scanKeeps
    <3>2. held = "none"
      BY <3>1 DEF ThreadsInv, ScanLocals
    <3> QED
      BY <1>1, <1>2, <3>1, <3>2, EarlySame
  <2> QED
    BY <1>3, <2>1, <2>2, <2>3, EarlyDueNow DEF ScanStep
<1>4. ASSUME TrigStep PROVE Come' /\ NotEarly'
  <2>1. CASE TrigRead \/ TrigRest
    <3>1. /\ UNCHANGED <<clock, ring, pushed, mem, cur>> /\ (jobIds' = jobIds \/ jobIds' = {})
          /\ held' = held \/ (held = "iterated" /\ held' = "lost")
      BY <2>1 DEF TrigRead, TrigRest, TrigReturn, trigKeeps, history
    <3> QED
      BY <1>1, <1>2, <3>1, EarlySame
  <2> QED
    BY <1>1, <1>4, <2>1, EarlyTake, EarlyPush DEF TrigStep
<1>5. CASE ScanException \/ Crash \/ Restart
  <2>1. /\ UNCHANGED <<clock, pushed>> /\ (ring' = ring \/ ring' = [s \in 0..Period-1 |-> {}])
        /\ (jobIds' = jobIds \/ jobIds' = {}) /\ held' = "none"
    BY <1>5 DEF ScanException, ScanReturn, Crash, Restart, NoProcess, NoLocals, scanKeeps, history
  <2>2. ring' = ring \/ InRing' = {}
    BY <2>1 DEF InRing
  <2> QED
    BY <1>1, <1>2, <2>1, <2>2, EarlySame DEF EarlyInv
<1>6. CASE TrigException
  <2>1. /\ UNCHANGED <<clock, ring, pushed, mem, cur>> /\ jobIds' = {}
        /\ held' = held \/ (held = "iterated" /\ held' = "lost")
    BY <1>6 DEF TrigException, TrigReturn, history
  <2> QED
    BY <1>1, <1>2, <2>1, EarlySame DEF EarlyInv
<1>7. CASE Tick \/ InfoService \/ EndOfModel \/ UNCHANGED vars \/ StopScan \/ StopTrigger
  <2>1. UNCHANGED <<ring, jobIds, pushed, mem, cur, held>> /\ clock' \in {clock, clock + 1}
    BY <1>7 DEF Tick, InfoService, StartRead, StartWrite, Stop, Delete, SaveOrUpdate, Copy,
                EndOfModel, StopScan, StopTrigger, scanKeeps, scanVars, trigVars, history, vars
  <2> QED
    BY <1>1, <1>2, <2>1, EarlySame DEF EarlyInv
<1> QED
  BY <1>1, <1>3, <1>4, <1>5, <1>6, <1>7 DEF Next, EarlyInv

\* What the ring, the trigger thread and the scan hold is of the turn of the ring that is on.
THEOREM NothingBeyondTheTurn ==
  ASSUME TrigLag + PreRead + 1 < Period
  PROVE  Spec => []EarlyInv
BY EarlyInit, EarlyNext, PTL DEF Spec

\* No job is handed to the trigger pool before the second it is due, through exceptions,
\* stops, crashes and restarts, as long as the trigger thread is not so late that the slot
\* it takes may hold entries of the next turn.
THEOREM PushedNotEarly ==
  ASSUME TrigLag + PreRead + 1 < Period
  PROVE  Spec => []NotEarly
<1>1. EarlyInv => NotEarly
  BY DEF EarlyInv
<1> QED
  BY <1>1, NothingBeyondTheTurn, PTL
=============================================================================

------------------------- MODULE SchedulerOnceProofs -------------------------
(* AtMostOnce for every value of the constants, from the invariant Inv *)
EXTENDS SchedulerProofs

USE ConstantTypes DEF ThreadsInv

-----------------------------------------------------------------------------
(* What a step does to the planned occurrences *)

\* A push that answers for new occurrences only keeps AtMostOnce.
LEMMA PushEffect ==
  ASSUME TypeOK, AtMostOnce, NEW j \in Jobs, NEW O \in SUBSET Nat, Push(j, O),
         O \cap PushedOccs(j) = {}
  PROVE  /\ PushedOccs(j)' = PushedOccs(j) \cup O
         /\ \A k \in Jobs \ {j} : PushedOccs(k)' = PushedOccs(k)
         /\ AtMostOnce'
<1>1. /\ \A k \in Jobs : \A i \in DOMAIN pushed'[k] :
           \/ i \in DOMAIN pushed[k] /\ pushed'[k][i] = pushed[k][i]
           \/ /\ k = j /\ i = Len(pushed[j]) + 1
              /\ pushed'[k][i].occs = O
      /\ PushedOccs(j)' = PushedOccs(j) \cup O
      /\ \A k \in Jobs \ {j} : PushedOccs(k)' = PushedOccs(k)
  BY PushRecord
<1>2. AtMostOnce'
  <2> SUFFICES ASSUME NEW k \in Jobs,
                      NEW a \in DOMAIN pushed'[k], NEW b \in DOMAIN pushed'[k], a # b
               PROVE  pushed'[k][a].occs \cap pushed'[k][b].occs = {}
    BY DEF AtMostOnce
  <2>1. \A i \in DOMAIN pushed[k] : pushed[k][i].occs \subseteq PushedOccs(k)
    BY DEF PushedOccs
  <2>2. CASE /\ a \in DOMAIN pushed[k] /\ pushed'[k][a] = pushed[k][a]
             /\ b \in DOMAIN pushed[k] /\ pushed'[k][b] = pushed[k][b]
    BY <2>2 DEF AtMostOnce
  <2>3. CASE /\ a \in DOMAIN pushed[k] /\ pushed'[k][a] = pushed[k][a]
             /\ k = j /\ pushed'[k][b].occs = O
    BY <2>1, <2>3
  <2>4. CASE /\ b \in DOMAIN pushed[k] /\ pushed'[k][b] = pushed[k][b]
             /\ k = j /\ pushed'[k][a].occs = O
    BY <2>1, <2>4
  <2> QED
    BY <1>1, <2>2, <2>3, <2>4
<1> QED
  BY <1>1, <1>2

\* What leaves the ring, the thread's hands and the history alone keeps their facts.
LEMMA SamePlan ==
  ASSUME Inv, UNCHANGED <<ring, jobIds, pushed>>
  PROVE  /\ Apart' /\ AtMostOnce'
         /\ InRing' = InRing /\ jobIds' = jobIds
         /\ \A j \in Jobs : PushedOccs(j)' = PushedOccs(j)
<1>1. InRing' = InRing /\ \A j : PushedOccs(j)' = PushedOccs(j)
  BY DEF InRing, PushedOccs
<1>2. Apart'
  BY <1>1 DEF Inv, Apart
<1>3. AtMostOnce'
  BY DEF Inv, AtMostOnce
<1> QED
  BY <1>1, <1>2, <1>3

\* Before is monotonic.
LEMMA BeforeLater ==
  ASSUME TypeOK, NEW j \in Jobs, NEW t \in Nat, NEW u \in Nat, t <= u, Before(j, t)
  PROVE  Before(j, u)
<1>1. \A e \in InRing \cup jobIds : e[2] \in Nat
  BY EntryTypes
<1>2. PushedOccs(j) \subseteq Nat
  BY EntryTypes
<1> QED
  BY <1>1, <1>2 DEF Before

\* In a process that has just started nothing is planned yet.
LEMMA InvInit == Init => Inv
<1> SUFFICES ASSUME Init PROVE Inv
  OBVIOUS
<1>1. ThreadsInv
  BY ThreadsInit
<1>2. InRing = {} /\ jobIds = {} /\ \A j \in Jobs : PushedOccs(j) = {}
  BY DEF Init, InRing, PushedOccs
<1>3. Apart /\ AtMostOnce
  BY <1>2 DEF Init, Apart, AtMostOnce
<1>4. NoneBeyond /\ RowsAhead /\ MemAhead
  BY <1>2 DEF NoneBeyond, RowsAhead, MemAhead, Before
<1>5. StartsAhead /\ StopOrder /\ Alive
  BY DEF Init, StartsAhead, StopOrder, Alive
<1> QED
  BY <1>1, <1>3, <1>4, <1>5 DEF Inv

-----------------------------------------------------------------------------
(* Steps that plan nothing *)

\* Time passes: what was ahead stays ahead, and a start ends within its second.
LEMMA InvTick ==
  ASSUME Inv, ThreadsInv', Tick, StartLag = 0
  PROVE  Inv'
<1>1. UNCHANGED <<row, starting, ring, scanVars, trigVars, downAt, history, bounds>>
  BY DEF Tick
<1>2. clock' = clock + 1 /\ \A j \in Jobs : starting[j] = NoStart
  <2>1. \A j \in Jobs : starting[j] # NoStart => clock < starting[j].at
    <3> SUFFICES ASSUME NEW j \in Jobs, starting[j] # NoStart
                 PROVE  clock < starting[j].at
      OBVIOUS
    <3>1. clock < starting[j].at + StartLag
      BY DEF Tick
    <3> QED
      BY <3>1, FieldTypes DEF Inv
  <2>2. \A j \in Jobs : starting[j] # NoStart => clock = starting[j].at
    BY DEF Inv, StartsAhead
  <2>3. clock \in Nat /\ clock' = clock + 1
    BY DEF Inv, TypeOK, Tick
  <2> QED
    BY <2>1, <2>2, <2>3
<1>3. Apart' /\ AtMostOnce' /\ InRing' = InRing
      /\ \A j \in Jobs : PushedOccs(j)' = PushedOccs(j)
  BY <1>1, SamePlan DEF trigVars, history
<1>4. NoneBeyond'
  <2>1. clock \in Nat
    BY DEF Inv, TypeOK
  <2>2. \A j \in Jobs : Before(j, clock + 1 + PreRead + 1)
    <3>1. TypeOK /\ \A j \in Jobs : Before(j, clock + PreRead + 1)
      BY DEF Inv, NoneBeyond
    <3>2. /\ clock + PreRead + 1 \in Nat /\ clock + 1 + PreRead + 1 \in Nat
          /\ clock + PreRead + 1 <= clock + 1 + PreRead + 1
      BY <2>1
    <3> QED
      BY <3>1, <3>2, BeforeLater
  <2>3. \A j \in Jobs : Before(j, clock + PreRead + 1)'
    BY <1>1, <1>2, <1>3, <2>2 DEF Before, trigVars
  <2> QED
    BY <1>2, <2>3 DEF NoneBeyond
<1>5. RowsAhead' /\ MemAhead'
  BY <1>1, <1>3 DEF Inv, RowsAhead, MemAhead, Before, InScan, scanVars, trigVars
<1>6. StartsAhead' /\ StopOrder'
  BY <1>1, <1>2 DEF Inv, StartsAhead, StopOrder, scanVars, trigVars
<1>7. Alive'
  <2>1. downAt \in Nat /\ clock \in Nat
    BY DEF Inv, TypeOK
  <2> QED
    BY <1>1, <1>2, <2>1 DEF Inv, Alive, scanVars
<1> QED
  BY <1>3, <1>4, <1>5, <1>6, <1>7 DEF Inv

\* InfoService: a started job's next time is beyond everything planned, because
\* StartDelay is no less than PreRead.
LEMMA InvInfoService ==
  ASSUME Inv, ThreadsInv', InfoService
  PROVE  Inv'
<1>1. UNCHANGED <<clock, ring, scanVars, trigVars, downAt, pushed>>
  BY DEF InfoService, StartRead, StartWrite, Stop, Delete, SaveOrUpdate, Copy, history
<1>2. Apart' /\ AtMostOnce' /\ InRing' = InRing /\ jobIds' = jobIds
      /\ \A j \in Jobs : PushedOccs(j)' = PushedOccs(j)
  BY <1>1, SamePlan DEF trigVars
<1>3. NoneBeyond'
  BY <1>1, <1>2 DEF Inv, NoneBeyond, Before
<1>4. MemAhead' /\ StopOrder' /\ Alive'
  BY <1>1, <1>2 DEF Inv, MemAhead, StopOrder, Alive, Before, InScan, scanVars, trigVars
<1>5. PICK j \in Jobs : \/ StartRead(j) \/ StartWrite(j) \/ Stop(j) \/ Delete(j)
                        \/ \E c \in Crons : SaveOrUpdate(j, c)
                        \/ \E k \in Jobs : Copy(j, k)
  BY DEF InfoService
<1>6. RowsAhead' /\ StartsAhead'
  <2>1. CASE StartRead(j)
    <3>1. NextValidTimeAfter(row[j].cron, StartFrom) > clock + StartDelay
      <4> TypeOK
        BY DEF Inv
      <4>1. row[j].cron \in Crons /\ StartFrom \in Nat /\ StartFrom = clock + StartDelay
        BY FieldTypes DEF StartFrom
      <4>2. NextValidTimeAfter(row[j].cron, StartFrom) # 0
        BY <2>1 DEF StartRead
      <4> QED
        BY <4>1, <4>2, NextValidTimeAfterLater
    <3>2. row' = row /\ starting' = [starting EXCEPT ![j] =
            [next |-> NextValidTimeAfter(row[j].cron, StartFrom), at |-> clock]]
      BY <2>1 DEF StartRead
    <3>3. RowsAhead'
      BY <1>1, <1>2, <3>2 DEF Inv, RowsAhead, Before, InScan, scanVars
    <3>4. StartsAhead'
      BY <1>1, <3>1, <3>2 DEF Inv, TypeOK, StartsAhead
    <3> QED
      BY <3>3, <3>4
  <2>2. CASE StartWrite(j)
    <3>1. starting[j].next > clock + StartDelay /\ starting[j].next \in Nat
      BY <2>2, FieldTypes DEF StartWrite, Inv, StartsAhead
    <3>2. Before(j, starting[j].next)
      <4> clock \in Nat
        BY DEF Inv, TypeOK
      <4>1. clock + PreRead + 1 \in Nat /\ clock + PreRead + 1 <= starting[j].next
        BY <3>1
      <4>2. Before(j, clock + PreRead + 1)
        BY DEF Inv, NoneBeyond
      <4> QED
        BY <3>1, <4>1, <4>2, BeforeLater DEF Inv
    <3>3. StartsAhead'
      BY <1>1, <2>2 DEF StartWrite, Inv, TypeOK, StartsAhead
    <3>4. \A k \in Jobs : row'[k] = row[k] \/ (k = j /\ row'[k].next = starting[j].next)
      BY <2>2 DEF StartWrite, Inv, TypeOK, Info
    <3>5. RowsAhead'
      BY <1>1, <1>2, <3>2, <3>4 DEF Inv, RowsAhead, Before, InScan, scanVars
    <3> QED
      BY <3>3, <3>5
  <2>3. CASE ~StartRead(j) /\ ~StartWrite(j)
    <3>1. starting' = starting
      BY <1>5, <2>3 DEF Stop, Delete, SaveOrUpdate, Copy
    <3>2. \A k \in Jobs : row'[k] = row[k] \/ row'[k].st # "RUNNING"
      <4>1. row \in [Jobs -> Info]
        BY DEF Inv, TypeOK
      <4>2. CASE Stop(j)
        BY <4>1, <4>2 DEF Stop, Info
      <4>3. CASE Delete(j)
        BY <4>1, <4>3 DEF Delete, Info
      <4>4. CASE \E c \in Crons : SaveOrUpdate(j, c)
        BY <4>1, <4>4 DEF SaveOrUpdate
      <4>5. CASE \E k \in Jobs : Copy(j, k)
        BY <4>1, <4>5 DEF Copy
      <4> QED
        BY <1>5, <2>3, <4>2, <4>3, <4>4, <4>5
    <3>3. RowsAhead'
      BY <1>1, <1>2, <3>2 DEF Inv, RowsAhead, Before, InScan, scanVars
    <3> QED
      BY <1>1, <3>1, <3>3 DEF Inv, StartsAhead
  <2> QED
    BY <2>1, <2>2, <2>3
<1> QED
  BY <1>2, <1>3, <1>4, <1>6 DEF Inv

\* What is unchanged in the plan keeps every bound on it.
LEMMA SameBefore ==
  ASSUME Inv, UNCHANGED <<ring, jobIds, pushed, downAt>>, NEW j \in Jobs, NEW t, Before(j, t)
  PROVE  Before(j, t)'
BY SamePlan DEF Before

\* A step of the scan that only changes its locals.
LEMMA InvScanLocal ==
  ASSUME Inv, ThreadsInv', Alive', scanPc # "end",
         UNCHANGED <<clock, row, starting, ring, jobIds, pushed, downAt, trigPc, trigRunning>>,
         \A j \in Jobs : InScan(j) => InScan(j)',
         \A j \in Jobs : InScan(j)' /\ mem'[j].st = "RUNNING" => Before(j, mem'[j].next)
  PROVE  Inv'
<1>1. Apart' /\ AtMostOnce'
  BY SamePlan
<1>2. NoneBeyond'
  <2>1. \A j \in Jobs : Before(j, clock + PreRead + 1)
    BY DEF Inv, NoneBeyond
  <2>2. \A j \in Jobs : Before(j, clock + PreRead + 1)'
    BY <2>1, SamePlan DEF Before
  <2> QED
    BY <2>2 DEF NoneBeyond
<1>3. RowsAhead'
  <2>1. \A j \in Jobs : row[j].st = "RUNNING" /\ ~InScan(j) => Before(j, row[j].next)
    BY DEF Inv, RowsAhead
  <2> QED
    BY <2>1, SamePlan DEF RowsAhead, Before
<1>4. MemAhead'
  BY SamePlan DEF MemAhead, Before
<1>5. StartsAhead' /\ StopOrder'
  BY DEF Inv, StartsAhead, StopOrder
<1> QED
  BY <1>1, <1>2, <1>3, <1>4, <1>5 DEF Inv

\* A scan starts with the rows, and what is planned lies before their next times.
LEMMA InvScanSelect ==
  ASSUME Inv, ThreadsInv', ScanSelect
  PROVE  Inv'
<1>1. /\ scanPc = "sleep" /\ nowTime' = clock /\ jobInfos' = picked' /\ mem' = row
      /\ picked' = {j \in Jobs : row[j].st = "RUNNING" /\ row[j].next <= clock + PreRead}
      /\ scanPc' = "jobs"
  BY DEF ScanSelect
<1>2. UNCHANGED <<clock, row, starting, ring, jobIds, pushed, downAt, trigPc, trigRunning>>
  BY DEF ScanSelect, scanKeeps
<1>3. \A j \in Jobs : ~InScan(j)
  BY <1>1 DEF InScan
<1>4. \A j \in Jobs : mem'[j].st = "RUNNING" => Before(j, mem'[j].next)
  BY <1>1, <1>3 DEF Inv, RowsAhead
<1>5. Alive'
  BY <1>1, <1>2 DEF Inv, Alive
<1> QED
  BY <1>1, <1>2, <1>3, <1>4, <1>5, InvScanLocal

\* What a loop body leaves behind.
LEMMA LoopBodyLocals ==
  ASSUME Inv, NEW j \in Jobs, scanPc = "jobs", NEW info \in Info, LoopBody(j, info)
  PROVE  /\ mem'[j] = info /\ \A k \in Jobs \ {j} : mem'[k] = mem[k]
         /\ \A k \in Jobs : InScan(k)' = InScan(k)
         /\ Alive' /\ nowTime' = nowTime
         /\ UNCHANGED <<clock, row, starting, ring, jobIds, downAt, trigPc, trigRunning>>
<1>1. /\ scanPc' = "while" /\ mem' = [mem EXCEPT ![j] = info]
      /\ UNCHANGED <<nowTime, picked>>
      /\ UNCHANGED <<clock, row, starting, ring, jobIds, downAt, trigPc, trigRunning>>
  BY DEF LoopBody, scanKeeps
<1>2. mem'[j] = info /\ \A k \in Jobs \ {j} : mem'[k] = mem[k]
  BY <1>1 DEF Inv, TypeOK
<1>3. Alive'
  BY <1>1 DEF Inv, Alive
<1> QED
  BY <1>1, <1>2, <1>3 DEF InScan

\* Misfire and "later" cases: the copy of j moves on, or stays.
LEMMA InvScanMissedLater ==
  ASSUME Inv, ThreadsInv', NEW j \in Jobs, ScanMissed(j) \/ ScanLater(j)
  PROVE  Inv'
<1> TypeOK /\ ThreadsInv
  BY DEF Inv
<1>1. j \in jobInfos /\ scanPc = "jobs" /\ UNCHANGED pushed
  BY DEF ScanMissed, ScanLater
<1>2. mem[j].st = "RUNNING" /\ mem[j].next \in Nat /\ InScan(j)
  BY <1>1, ThreadsLoopBody
<1>3. PICK info \in Info : /\ LoopBody(j, info)
                           /\ info.st = "RUNNING" => info.next >= mem[j].next
  BY <1>1, ThreadsLoopBody
<1>4. info.st = "RUNNING" => Before(j, info.next)
  <2>1. info.next \in Nat
    BY DEF Info
  <2>2. Before(j, mem[j].next)
    BY <1>2 DEF Inv, MemAhead
  <2> QED
    BY <1>2, <1>3, <2>1, <2>2, BeforeLater
<1>5. /\ mem'[j] = info /\ \A k \in Jobs \ {j} : mem'[k] = mem[k]
      /\ \A k \in Jobs : InScan(k)' = InScan(k)
      /\ Alive'
      /\ UNCHANGED <<clock, row, starting, ring, jobIds, downAt, trigPc, trigRunning>>
  BY <1>1, <1>3, LoopBodyLocals
<1>6. \A k \in Jobs : InScan(k)' /\ mem'[k].st = "RUNNING" => Before(k, mem'[k].next)
  BY <1>4, <1>5 DEF Inv, MemAhead
<1> QED
  BY <1>1, <1>5, <1>6, InvScanLocal

\* The bookkeeping steps of the scan.
LEMMA InvScanMoves ==
  ASSUME Inv, ThreadsInv', ScanGetSet \/ ScanNextJob \/ ScanUpdates
  PROVE  Inv'
<1>1. UNCHANGED <<clock, row, starting, ring, jobIds, pushed, downAt, trigPc, trigRunning>>
  BY DEF ScanGetSet, ScanNextJob, ScanUpdates, scanKeeps
<1>2. UNCHANGED <<nowTime, picked, mem, cur>> /\ scanPc # "end"
  BY DEF ScanGetSet, ScanNextJob, ScanUpdates
<1>3. \A k \in Jobs : InScan(k)' = InScan(k)
  BY <1>2 DEF ScanGetSet, ScanNextJob, ScanUpdates, InScan
<1>4. Alive'
  BY <1>1, <1>2 DEF ScanGetSet, ScanNextJob, ScanUpdates, Inv, Alive
<1>5. \A k \in Jobs : InScan(k)' /\ mem'[k].st = "RUNNING" => Before(k, mem'[k].next)
  BY <1>2, <1>3 DEF Inv, MemAhead
<1> QED
  BY <1>1, <1>2, <1>3, <1>4, <1>5, InvScanLocal

\* updateNextTimeById: the row takes over what the copy promised.
LEMMA InvScanUpdate ==
  ASSUME Inv, ThreadsInv', NEW j \in Jobs, ScanUpdate(j)
  PROVE  Inv'
<1>1. scanPc = "update" /\ j \in jobInfos /\ jobInfos' = jobInfos \ {j}
  BY DEF ScanUpdate
<1>2. UNCHANGED <<clock, starting, ring, jobIds, pushed, downAt, trigPc, trigRunning,
                  scanPc, nowTime, picked, mem, cur>>
  BY DEF ScanUpdate, scanKeeps
<1>3. Apart' /\ AtMostOnce'
  BY <1>2, SamePlan
<1>4. NoneBeyond'
  BY <1>2, SamePlan DEF Inv, NoneBeyond, Before
<1>5. InScan(j) /\ \A k \in Jobs : InScan(k)' <=> InScan(k) /\ k # j
  BY <1>1, <1>2 DEF InScan
<1>6. \A k \in Jobs \ {j} : row'[k] = row[k]
  BY DEF ScanUpdate, Inv, TypeOK
<1>7. \/ row'[j].st = mem[j].st /\ row'[j].next = mem[j].next
      \/ row'[j].st # "RUNNING"
  <2>1. row \in [Jobs -> Info] /\ mem[j] \in Info
    BY DEF Inv, TypeOK
  <2>2. Present(j) => row'[j] = [mem[j] EXCEPT !.cron = row[j].cron]
    BY <2>1 DEF ScanUpdate
  <2>3. ~Present(j) => row'[j] = row[j]
    BY <2>1 DEF ScanUpdate
  <2>4. ~Present(j) => row[j].st # "RUNNING"
    BY DEF Present
  <2>5. LET i == [mem[j] EXCEPT !.cron = row[j].cron]
        IN  i.st = mem[j].st /\ i.next = mem[j].next
    BY <2>1 DEF Info
  <2> QED
    BY <2>2, <2>3, <2>4, <2>5
<1>8. RowsAhead'
  <2>1. \A k \in Jobs : row'[k].st = "RUNNING" /\ ~InScan(k)' => Before(k, row'[k].next)
    BY <1>5, <1>6, <1>7 DEF Inv, RowsAhead, MemAhead
  <2> QED
    BY <1>2, <2>1, SamePlan DEF RowsAhead, Before
<1>9. MemAhead'
  BY <1>2, <1>5, SamePlan DEF Inv, MemAhead, Before
<1>10. StartsAhead' /\ StopOrder' /\ Alive'
  BY <1>1, <1>2 DEF Inv, StartsAhead, StopOrder, Alive
<1> QED
  BY <1>3, <1>4, <1>8, <1>9, <1>10 DEF Inv

\* The scan ends: nothing is left to write.
LEMMA InvScanRest ==
  ASSUME Inv, ThreadsInv', ScanRest
  PROVE  Inv'
<1>1. /\ scanPc = "update" /\ jobInfos = {} /\ scanPc' \in {"sleep", "end"}
      /\ jobInfos' = {} /\ picked' = {}
  BY DEF ScanRest, ScanReturn, NoLocals
<1>2. UNCHANGED <<clock, row, starting, ring, jobIds, pushed, downAt, trigPc, trigRunning>>
  BY DEF ScanRest, ScanReturn, scanKeeps
<1>3. \A k \in Jobs : ~InScan(k) /\ ~InScan(k)'
  BY <1>1 DEF InScan
<1>4. Alive'
  BY <1>1, <1>2 DEF Inv, Alive
<1> QED
  BY <1>1, <1>2, <1>3, <1>4, InvScanLocal

-----------------------------------------------------------------------------
(* Steps that plan an occurrence *)

\* What the scan pushes was not pushed before.
LEMMA DueNowNew ==
  ASSUME Inv, NEW j \in Jobs, ScanDueNow(j)
  PROVE  {mem[j].next} \cap PushedOccs(j) = {}
<1> TypeOK /\ ThreadsInv
  BY DEF Inv
<1>1. scanPc = "jobs" /\ j \in jobInfos /\ mem[j].next >= nowTime
  BY DEF ScanDueNow, DueNow
<1>2. /\ mem[j].next \in Nat /\ nowTime \in Nat /\ downAt \in Nat
      /\ downAt < nowTime /\ Before(j, mem[j].next)
  BY <1>1, ThreadsLoopBody DEF TypeOK, Inv, Alive, MemAhead
<1>3. \A o \in PushedOccs(j) : o \in Nat /\ (o < mem[j].next \/ o <= downAt)
  BY <1>2, EntryTypes DEF Before
<1> QED
  BY <1>1, <1>2, <1>3

\* The direct push: the occurrence lies before everything the job may plan next, and
\* was neither in the ring nor pushed.
LEMMA InvScanDueNow ==
  ASSUME Inv, ThreadsInv', NEW j \in Jobs, ScanDueNow(j)
  PROVE  Inv'
<1> DEFINE t == mem[j].next
           info == Refreshed(mem[j], t)
<1> TypeOK /\ AtMostOnce
  BY DEF Inv
<1> ThreadsInv
  BY DEF Inv
<1>1. scanPc = "jobs" /\ j \in jobInfos /\ Push(j, {t}) /\ LoopBody(j, info)
  BY DEF ScanDueNow
<1>2. /\ mem[j] \in Info /\ t \in Nat /\ clock \in Nat /\ nowTime \in Nat
      /\ nowTime <= clock
  BY FieldTypes DEF TypeOK, Inv, ScanLocals
<1>3. /\ info \in Info
      /\ \/ info.st = "STOPPED" /\ info.next = 0
         \/ info.st = "RUNNING" /\ info.next > t
  BY <1>2, RefreshedLater
<1>4. mem[j].st = "RUNNING" /\ t <= nowTime + PreRead /\ InScan(j)
  BY <1>1, ThreadsLoopBody
<1>5. info.next \in Nat
  BY <1>3 DEF Info
<1> HIDE DEF info
<1>6. /\ mem'[j] = info /\ \A k \in Jobs \ {j} : mem'[k] = mem[k]
      /\ \A k \in Jobs : InScan(k)' = InScan(k)
      /\ Alive'
      /\ UNCHANGED <<clock, row, starting, ring, jobIds, downAt, trigPc, trigRunning>>
  BY <1>1, <1>3, LoopBodyLocals
<1>7. Before(j, t)
  BY <1>4 DEF Inv, MemAhead
<1> HIDE DEF t
<1>8. \A e \in InRing \cup jobIds : e[1] = j => e[2] # t
  BY <1>2, <1>7, EntryTypes DEF Before
<1>9. {t} \cap PushedOccs(j) = {}
  BY DueNowNew DEF t
<1>10. /\ PushedOccs(j)' = PushedOccs(j) \cup {t}
       /\ \A k \in Jobs \ {j} : PushedOccs(k)' = PushedOccs(k)
       /\ AtMostOnce'
  BY <1>1, <1>2, <1>9, PushEffect
<1>11. InRing' = InRing /\ jobIds' = jobIds
  BY <1>6 DEF InRing
<1>12. Apart'
  BY <1>8, <1>10, <1>11, EntryTypes DEF Inv, Apart
<1>13. \A k \in Jobs : \A u : Before(k, u) /\ (k = j => t < u) => Before(k, u)'
  BY <1>6, <1>10, <1>11 DEF Before
<1>14. NoneBeyond'
  <2>1. \A k \in Jobs : Before(k, clock + PreRead + 1)
    BY DEF Inv, NoneBeyond
  <2>2. t < clock + PreRead + 1
    BY <1>2, <1>4
  <2>3. \A k \in Jobs : Before(k, clock + PreRead + 1)'
    BY <1>6, <1>13, <2>1, <2>2 DEF Before
  <2> QED
    BY <2>3 DEF NoneBeyond
<1>15. RowsAhead'
  <2>1. \A k \in Jobs : row[k].st = "RUNNING" /\ ~InScan(k) => k # j /\ Before(k, row[k].next)
    BY <1>4 DEF Inv, RowsAhead
  <2>2. \A k \in Jobs : row[k].st = "RUNNING" /\ ~InScan(k) => Before(k, row[k].next)'
    BY <1>6, <1>10, <1>11, <2>1 DEF Before
  <2> QED
    BY <1>6, <2>2 DEF RowsAhead
<1>16. MemAhead'
  <2>1. info.st = "RUNNING" => Before(j, info.next)
    BY <1>2, <1>3, <1>5, <1>7, BeforeLater
  <2>2. \A k \in Jobs : InScan(k) /\ mem'[k].st = "RUNNING"
          => Before(k, mem'[k].next) /\ (k = j => t < mem'[k].next)
    BY <1>1, <1>3, <1>5, <1>6, <2>1 DEF Inv, MemAhead
  <2>3. \A k \in Jobs : \A u : InScan(k) /\ mem'[k].st = "RUNNING" /\ u = mem'[k].next
          => Before(k, u)'
    BY <1>13, <2>2
  <2> QED
    BY <1>6, <2>3 DEF MemAhead, Before
<1>17. StartsAhead' /\ StopOrder'
  BY <1>1, <1>6 DEF LoopBody, Inv, StartsAhead, StopOrder
<1> QED
  BY <1>6, <1>10, <1>12, <1>14, <1>15, <1>16, <1>17 DEF Inv

\* The put into the ring, whatever has become of the set it goes to.
LEMMA InvScanAdd ==
  ASSUME Inv, ThreadsInv', ScanAdd
  PROVE  Inv'
<1> DEFINE t == mem[cur].next
           e == <<cur, t>>
           info == Refreshed(mem[cur], t)
<1> TypeOK
  BY DEF Inv
<1>1. /\ cur \in Jobs /\ mem[cur] \in Info /\ t \in Nat /\ clock \in Nat
      /\ nowTime \in Nat /\ downAt \in Nat /\ nowTime <= clock
  BY FieldTypes DEF TypeOK, Inv, ScanLocals
<1>2. /\ scanPc = "add" /\ scanPc' = "while" /\ mem' = [mem EXCEPT ![cur] = info]
  BY DEF ScanAdd
<1>3. UNCHANGED <<clock, starting, trigRunning, row, pushed, downAt, nowTime, picked>>
  BY DEF ScanAdd, history
<1>4. /\ mem[cur].st = "RUNNING" /\ t <= nowTime + PreRead /\ t >= nowTime
      /\ InScan(cur) /\ downAt < nowTime
      /\ trigPc # "end" /\ trigRunning
  BY <1>1, <1>2 DEF Inv, ScanLocals, maxTriggerTime, StopOrder, TypeOK, InScan, Alive
<1>5. /\ info \in Info
      /\ \/ info.st = "STOPPED" /\ info.next = 0
         \/ info.st = "RUNNING" /\ info.next > t
  BY <1>1, RefreshedLater
<1>6. info.next \in Nat
  BY <1>5 DEF Info
<1>7. Before(cur, t)
  BY <1>1, <1>4 DEF Inv, MemAhead
<1>8. \/ ring' = [ring EXCEPT ![Slot(t)] = @ \cup {e}] /\ jobIds' = jobIds
      \/ ring' = ring /\ jobIds' \in {jobIds, jobIds \cup {e}, {}}
  BY DEF ScanAdd
<1>9. trigPc' \in {trigPc, "sleep"}
  BY DEF ScanAdd
<1>10. mem'[cur] = info /\ \A k \in Jobs \ {cur} : mem'[k] = mem[k]
  BY <1>1, <1>2 DEF TypeOK
<1> HIDE DEF info
<1>11. \A k \in Jobs : InScan(k)' = InScan(k)
  BY <1>2, <1>3 DEF InScan
<1>12. Slot(t) \in 0..Period-1
  BY <1>1, SlotType
<1>13. \/ ring' = ring
       \/ /\ ring'[Slot(t)] = ring[Slot(t)] \cup {e}
          /\ \A s \in 0..Period-1 : s # Slot(t) => ring'[s] = ring[s]
  BY <1>8, <1>12 DEF TypeOK
<1>14. \/ InRing' = InRing /\ jobIds' \in {jobIds, jobIds \cup {e}, {}}
       \/ InRing' = InRing \cup {e} /\ jobIds' = jobIds
  BY <1>8, <1>12, <1>13 DEF InRing
<1>16. \A k \in Jobs : PushedOccs(k)' = PushedOccs(k)
  BY <1>3 DEF PushedOccs
<1>17. e \notin InRing /\ e \notin jobIds /\ t \notin PushedOccs(cur)
  <2>1. \A o \in PushedOccs(cur) : o \in Nat /\ (o < t \/ o <= downAt)
    BY <1>1, <1>7, EntryTypes DEF Before
  <2>2. t \notin PushedOccs(cur)
    BY <1>1, <1>4, <2>1
  <2> QED
    BY <1>1, <1>7, <2>2 DEF Before
<1>18. e[1] = cur /\ e[2] = t
  OBVIOUS
<1> HIDE DEF e, t
<1>19. Apart'
  BY <1>1, <1>14, <1>16, <1>17, <1>18, EntryTypes DEF Inv, Apart
<1>20. AtMostOnce'
  BY <1>3 DEF Inv, AtMostOnce
<1>21. \A k \in Jobs : \A u : Before(k, u) /\ (k = cur => t < u) => Before(k, u)'
  BY <1>3, <1>14, <1>16, <1>18 DEF Before
<1>22. NoneBeyond'
  <2>1. \A k \in Jobs : Before(k, clock + PreRead + 1)
    BY DEF Inv, NoneBeyond
  <2>2. t < clock + PreRead + 1
    BY <1>1, <1>4
  <2>3. \A k \in Jobs : Before(k, clock + PreRead + 1)'
    BY <1>3, <1>21, <2>1, <2>2 DEF Before
  <2> QED
    BY <2>3 DEF NoneBeyond
<1>23. RowsAhead'
  <2>1. \A k \in Jobs : row[k].st = "RUNNING" /\ ~InScan(k) => k # cur /\ Before(k, row[k].next)
    BY <1>4 DEF Inv, RowsAhead
  <2>2. \A k \in Jobs : row[k].st = "RUNNING" /\ ~InScan(k) => Before(k, row[k].next)'
    BY <1>3, <1>21, <2>1 DEF Before
  <2> QED
    BY <1>3, <1>11, <2>2 DEF RowsAhead
<1>24. MemAhead'
  <2>1. info.st = "RUNNING" => Before(cur, info.next)
    BY <1>1, <1>5, <1>6, <1>7, BeforeLater
  <2>2. \A k \in Jobs : InScan(k) /\ mem'[k].st = "RUNNING"
          => Before(k, mem'[k].next) /\ (k = cur => t < mem'[k].next)
    BY <1>1, <1>5, <1>6, <1>10, <2>1 DEF Inv, MemAhead
  <2>3. \A k \in Jobs : \A u : InScan(k) /\ mem'[k].st = "RUNNING" /\ u = mem'[k].next
          => Before(k, u)'
    BY <1>21, <2>2
  <2> QED
    BY <1>11, <2>3 DEF MemAhead, Before
<1>25. StartsAhead' /\ StopOrder' /\ Alive'
  BY <1>2, <1>3, <1>4, <1>9 DEF Inv, StartsAhead, StopOrder, Alive
<1> QED
  BY <1>19, <1>20, <1>22, <1>23, <1>24, <1>25 DEF Inv

-----------------------------------------------------------------------------
(* The trigger thread *)

\* A step that takes entries out of the ring, and out of the thread's hands.
LEMMA InvLess ==
  ASSUME Inv, ThreadsInv', Apart', AtMostOnce', StopOrder', Alive',
         InRing' \cup jobIds' \subseteq InRing \cup jobIds,
         \A j \in Jobs : PushedOccs(j)' \subseteq
                           PushedOccs(j) \cup {e[2] : e \in {d \in jobIds : d[1] = j}},
         downAt <= downAt',
         UNCHANGED <<clock, row, starting, scanPc, jobInfos, picked, mem>>
  PROVE  Inv'
<1>1. \A j \in Jobs : \A t : Before(j, t) => Before(j, t)'
  <2>1. \A o \in Nat : o <= downAt => o <= downAt'
    BY DEF Inv, TypeOK
  <2>2. \A j \in Jobs : PushedOccs(j) \subseteq Nat
    BY EntryTypes DEF Inv
  <2> QED
    BY <2>1, <2>2 DEF Before
<1>2. \A j \in Jobs : InScan(j)' = InScan(j)
  BY DEF InScan
<1>3. NoneBeyond'
  <2>1. \A j \in Jobs : Before(j, clock + PreRead + 1)'
    BY <1>1 DEF Inv, NoneBeyond, Before
  <2> QED
    BY <2>1 DEF NoneBeyond
<1>4. RowsAhead'
  <2>1. \A j \in Jobs : \A t : row[j].st = "RUNNING" /\ ~InScan(j) /\ t = row[j].next
          => Before(j, t)'
    BY <1>1 DEF Inv, RowsAhead
  <2> QED
    BY <1>2, <2>1 DEF RowsAhead, Before
<1>5. MemAhead'
  <2>1. \A j \in Jobs : \A t : InScan(j) /\ mem[j].st = "RUNNING" /\ t = mem[j].next
          => Before(j, t)'
    BY <1>1 DEF Inv, MemAhead
  <2> QED
    BY <1>2, <2>1 DEF MemAhead, Before
<1>6. StartsAhead'
  BY DEF Inv, StartsAhead
<1> QED
  BY <1>3, <1>4, <1>5, <1>6 DEF Inv

\* An orderly stop or a crash only moves downAt, to now.
LEMMA AliveTrig ==
  ASSUME Inv, ThreadsInv', StopOrder', UNCHANGED <<clock, scanPc, nowTime>>,
         downAt' = downAt \/ (downAt' = clock /\ scanPc = "end")
  PROVE  Alive' /\ downAt <= downAt'
<1>1. downAt \in Nat /\ clock \in Nat /\ downAt <= clock
  BY DEF Inv, Alive, TypeOK
<1>2. downAt <= downAt' /\ downAt' <= clock
  BY <1>1
<1>3. Alive'
  BY <1>1, <1>2 DEF Inv, Alive
<1> QED
  BY <1>2, <1>3

\* TRIGGER_JOB_MAP.remove: the entries of a slot change hands.
LEMMA InvTake ==
  ASSUME Inv, ThreadsInv', NEW s \in 0..Period-1, TakeSlot(s),
         UNCHANGED <<trigKeeps, trigRunning, pushed>>, trigPc # "end", trigPc' # "end"
  PROVE  Inv'
<1> TypeOK
  BY DEF Inv
<1>1. jobIds' = ring[s] /\ ring' = [ring EXCEPT ![s] = {}]
  BY DEF TakeSlot
<1>2. ring'[s] = {} /\ \A r \in 0..Period-1 : r # s => ring'[r] = ring[r]
  BY <1>1 DEF TypeOK
<1>3. UNCHANGED <<clock, row, starting, scanPc, nowTime, jobInfos, picked, mem, cur, downAt>>
  BY DEF trigKeeps
<1>4. InRing' \subseteq InRing /\ jobIds' \subseteq InRing
  BY <1>1, <1>2 DEF InRing
<1>5. \A e \in InRing' : e \notin jobIds'
  <2> SUFFICES ASSUME NEW r \in 0..Period-1, NEW e \in ring'[r]
               PROVE  e \notin ring[s]
    BY <1>1 DEF InRing
  <2>1. r # s /\ e \in ring[r]
    BY <1>2
  <2> QED
    BY <2>1 DEF Inv, SlotsRight
<1>6. \A j \in Jobs : PushedOccs(j)' = PushedOccs(j)
  BY DEF PushedOccs
<1>7. Apart'
  BY <1>4, <1>5, <1>6, EntryTypes DEF Inv, Apart
<1>8. AtMostOnce'
  BY DEF Inv, AtMostOnce
<1>9. StopOrder'
  BY <1>3 DEF Inv, StopOrder
<1>10. Alive' /\ downAt <= downAt'
  BY <1>3, <1>9, AliveTrig
<1> QED
  BY <1>3, <1>4, <1>6, <1>7, <1>8, <1>9, <1>10, InvLess

\* What the thread took was not pushed before.
LEMMA TakenNew ==
  ASSUME Inv, NEW j \in Jobs
  PROVE  Of(j, jobIds) \cap PushedOccs(j) = {}
<1>1. \A o \in Of(j, jobIds) : <<j, o>> \in jobIds /\ <<j, o>>[1] = j /\ <<j, o>>[2] = o
  BY DEF Of
<1> QED
  BY <1>1 DEF Inv, Apart

\* The push of what the thread took.
LEMMA InvTrigPush ==
  ASSUME Inv, ThreadsInv', NEW j \in Jobs, TrigPush(j)
  PROVE  Inv'
<1> DEFINE O == Of(j, jobIds)
<1> TypeOK /\ AtMostOnce
  BY DEF Inv
<1>1. /\ Push(j, O) /\ jobIds' = {e \in jobIds : e[1] # j}
      /\ UNCHANGED <<trigKeeps, ring, held, trigRunning, trigPc, trigNow, fails>>
  BY DEF TrigPush
<1>2. UNCHANGED <<clock, row, starting, scanPc, nowTime, jobInfos, picked, mem, cur, ring,
                  trigRunning, trigPc, downAt>>
  BY <1>1 DEF trigKeeps
<1>3. O = {e[2] : e \in {d \in jobIds : d[1] = j}}
  BY EntryTypes DEF Of
<1>4. \A o \in O : o \in Nat /\ <<j, o>> \in jobIds
  BY EntryTypes DEF Of
<1> HIDE DEF O
<1>5. O \cap PushedOccs(j) = {}
  BY TakenNew DEF O
<1>6. /\ PushedOccs(j)' = PushedOccs(j) \cup O
      /\ \A k \in Jobs \ {j} : PushedOccs(k)' = PushedOccs(k)
      /\ AtMostOnce'
  BY <1>1, <1>4, <1>5, PushEffect
<1>7. InRing' = InRing
  BY <1>2 DEF InRing
<1>8. Apart'
  <2>1. \A e \in InRing : e \notin jobIds'
    BY <1>1 DEF Inv, Apart
  <2>2. \A e \in InRing : e[2] \notin PushedOccs(e[1])'
    <3> SUFFICES ASSUME NEW e \in InRing PROVE e[2] \notin PushedOccs(e[1])'
      OBVIOUS
    <3>1. e[1] \in Jobs /\ e = <<e[1], e[2]>> /\ e[2] \notin PushedOccs(e[1])
      BY EntryTypes DEF Inv, Apart
    <3>2. CASE e[1] # j
      BY <1>6, <3>1, <3>2
    <3>3. CASE e[1] = j
      <4>1. e[2] \notin O
        BY <1>4, <3>1, <3>3 DEF Inv, Apart
      <4> QED
        BY <1>6, <3>1, <3>3, <4>1
    <3> QED
      BY <3>2, <3>3
  <2>3. \A e \in jobIds' : e[2] \notin PushedOccs(e[1])'
    BY <1>1, <1>6, EntryTypes DEF Inv, Apart
  <2> QED
    BY <1>7, <2>1, <2>2, <2>3 DEF Apart
<1>9. StopOrder'
  BY <1>2 DEF Inv, StopOrder
<1>10. InRing' \cup jobIds' \subseteq InRing \cup jobIds
  BY <1>1, <1>7
<1>11. \A k \in Jobs : PushedOccs(k)' \subseteq
          PushedOccs(k) \cup {e[2] : e \in {d \in jobIds : d[1] = k}}
  BY <1>3, <1>6
<1>12. Alive' /\ downAt <= downAt'
  BY <1>2, <1>9, AliveTrig
<1> QED
  BY <1>2, <1>6, <1>8, <1>9, <1>10, <1>11, <1>12, InvLess

\* Every step of triggerJob keeps the invariant.
LEMMA InvTrigStep ==
  ASSUME Inv, ThreadsInv', TrigStep
  PROVE  Inv'
<1>1. ASSUME UNCHANGED <<clock, row, starting, scanPc, nowTime, jobInfos, picked, mem, ring,
                         jobIds, pushed, trigRunning>>,
             StopOrder', downAt' = downAt \/ (downAt' = clock /\ scanPc = "end")
      PROVE  Inv'
  <2>1. Alive' /\ downAt <= downAt'
    BY <1>1, AliveTrig
  <2> QED
    BY <1>1, <2>1, SamePlan, InvLess
<1>2. CASE TrigRead
  <2>1. UNCHANGED <<clock, row, starting, scanPc, nowTime, jobInfos, picked, mem, ring,
                    trigRunning, jobIds, pushed, downAt>>
    BY <1>2 DEF TrigRead, trigKeeps
  <2>2. StopOrder'
    BY <1>2, <2>1 DEF TrigRead, Inv, StopOrder
  <2> QED
    BY <1>1, <2>1, <2>2
<1>3. CASE TakePrevious \/ TakeCurrent
  <2>1. /\ trigPc # "end" /\ trigPc' # "end"
        /\ UNCHANGED <<trigKeeps, trigRunning, trigNow, pushed, fails>>
        /\ \/ \E t \in Nat : TakeSlot(Slot(t)) /\ Slot(t) \in 0..Period-1
           \/ UNCHANGED <<ring, held, jobIds>>
    BY <1>3, TakeOf DEF Inv
  <2>2. CASE UNCHANGED <<ring, held, jobIds>>
    <3>1. UNCHANGED <<clock, row, starting, scanPc, nowTime, jobInfos, picked, mem, ring,
                      trigRunning, jobIds, pushed, downAt>>
      BY <2>1, <2>2 DEF trigKeeps
    <3>2. StopOrder'
      BY <2>1, <3>1 DEF Inv, StopOrder
    <3> QED
      BY <1>1, <3>1, <3>2
  <2> QED
    BY <2>1, <2>2, InvTake
<1>4. CASE TrigRest
  <2>1. /\ UNCHANGED <<clock, row, starting, scanPc, nowTime, jobInfos, picked, mem, ring,
                       trigRunning, pushed>>
        /\ trigPc' = (IF trigRunning THEN "sleep" ELSE "end")
        /\ jobIds = {} /\ jobIds' = {} /\ downAt' = IF trigRunning THEN downAt ELSE clock
    BY <1>4 DEF TrigRest, TrigReturn, history
  <2>2. StopOrder' /\ (~trigRunning => scanPc = "end")
    BY <2>1 DEF Inv, StopOrder
  <2> QED
    BY <1>1, <2>1, <2>2
<1>5. CASE \E j \in Jobs : TrigPush(j)
  BY <1>5, InvTrigPush
<1> QED
  BY <1>2, <1>3, <1>4, <1>5 DEF TrigStep

-----------------------------------------------------------------------------
(* The process *)

\* stop keeps it: it touches no plan.
LEMMA InvStop ==
  ASSUME Inv, ThreadsInv', StopScan \/ StopTrigger
  PROVE  Inv'
<1>1. CASE StopScan
  <2>1. /\ UNCHANGED <<clock, row, starting, ring, jobIds, pushed, trigPc, trigRunning,
                       nowTime, jobInfos, picked, mem, downAt>>
        /\ scanPc' = IF scanPc = "sleep" THEN "end" ELSE scanPc
    BY <1>1 DEF StopScan, scanKeeps
  <2>2. \A j \in Jobs : InScan(j)' = InScan(j)
    BY <2>1 DEF InScan
  <2>3. Apart' /\ AtMostOnce'
    BY <2>1, SamePlan
  <2>4. NoneBeyond' /\ RowsAhead' /\ MemAhead'
    BY <2>1, <2>2, SamePlan DEF Inv, NoneBeyond, RowsAhead, MemAhead, Before
  <2>5. StartsAhead' /\ StopOrder' /\ Alive'
    BY <2>1 DEF Inv, StartsAhead, StopOrder, Alive
  <2> QED
    BY <2>3, <2>4, <2>5 DEF Inv
<1>2. CASE StopTrigger
  <2>1. UNCHANGED <<clock, row, starting, scanPc, nowTime, jobInfos, picked, mem, ring,
                    jobIds, pushed>>
    BY <1>2 DEF StopTrigger, scanVars, history
  <2>2. StopOrder' /\ downAt' = clock /\ scanPc = "end"
    BY <1>2, <2>1 DEF StopTrigger, StopOrder
  <2>3. Alive' /\ downAt <= downAt'
    BY <2>1, <2>2, AliveTrig
  <2> QED
    BY <2>1, <2>2, <2>3, SamePlan, InvLess
<1> QED
  BY <1>1, <1>2

\* A crash loses the plan, and what was pushed before it is past when a process starts
\* again; start begins with an empty ring and rows that lie after all else.
LEMMA InvProcess ==
  ASSUME Inv, ThreadsInv', (Crash /\ Come) \/ Restart
  PROVE  Inv'
<1>1. /\ jobInfos' = {} /\ picked' = {} /\ jobIds' = {}
      /\ ring' = [s \in 0..Period-1 |-> {}] /\ starting' = [j \in Jobs |-> NoStart]
      /\ UNCHANGED <<clock, row, pushed>> /\ scanPc' \in {"sleep", "end"}
  BY DEF Crash, Restart, NoProcess, NoLocals, history
<1>2. InRing' = {} /\ \A j \in Jobs : PushedOccs(j)' = PushedOccs(j)
  BY <1>1 DEF InRing, PushedOccs
<1>3. \A j \in Jobs : ~InScan(j)'
  BY <1>1 DEF InScan
<1>4. Apart' /\ AtMostOnce' /\ MemAhead' /\ StartsAhead'
  BY <1>1, <1>2, <1>3 DEF Inv, Apart, AtMostOnce, MemAhead, StartsAhead
<1>5. CASE Crash /\ Come
  <2>1. downAt' = clock /\ scanPc' = "end"
    BY <1>5 DEF Crash
  <2>2. \A j \in Jobs : \A t : Before(j, t)'
    BY <1>1, <1>2, <1>5, <2>1 DEF Come, Before
  <2>3. NoneBeyond' /\ RowsAhead'
    BY <2>2 DEF NoneBeyond, RowsAhead, Before
  <2>4. StopOrder' /\ Alive'
    BY <1>1, <2>1 DEF Inv, StopOrder, Alive, TypeOK
  <2> QED
    BY <1>4, <2>3, <2>4 DEF Inv
<1>6. CASE Restart
  <2>1. /\ scanPc = "end" /\ scanPc' = "sleep" /\ trigPc' = "sleep" /\ trigRunning'
        /\ downAt' = downAt /\ clock > downAt
    BY <1>6 DEF Restart, Up, Inv, StopOrder
  <2>2. \A j \in Jobs : \A t : Before(j, t) => Before(j, t)'
    BY <1>1, <1>2, <2>1 DEF Before
  <2>3. \A j \in Jobs : ~InScan(j)
    BY <2>1 DEF InScan
  <2>4. \A j \in Jobs : Before(j, clock + PreRead + 1)'
    BY <1>1, <2>2 DEF Inv, NoneBeyond, Before
  <2>5. \A j \in Jobs : \A t : row[j].st = "RUNNING" /\ t = row[j].next => Before(j, t)'
    BY <2>2, <2>3 DEF Inv, RowsAhead
  <2>6. NoneBeyond' /\ RowsAhead'
    BY <1>1, <2>4, <2>5 DEF NoneBeyond, RowsAhead, Before
  <2>7. StopOrder'
    BY <2>1 DEF StopOrder
  <2>8. downAt < clock /\ downAt <= clock
    BY <2>1 DEF Inv, TypeOK
  <2>9. Alive'
    BY <1>1, <2>1, <2>8 DEF Alive
  <2> QED
    BY <1>4, <2>6, <2>7, <2>9 DEF Inv
<1> QED
  BY <1>5, <1>6

-----------------------------------------------------------------------------
\* Inv is inductive as long as no thread fails and a start's select and update fall into
\* one second, crashes included where nothing is taken or pushed early.
LEMMA InvNext ==
  ASSUME StartLag = 0, MayCrash => Come, Inv, [Next]_vars, ~ScanException, ~TrigException
  PROVE  Inv'
<1>1. ThreadsInv'
  BY ThreadsNext DEF Inv
<1>2. CASE UNCHANGED vars
  <2>1. UNCHANGED <<clock, row, starting, scanPc, nowTime, jobInfos, picked, mem, ring,
                    jobIds, pushed, trigPc, trigRunning, downAt>>
    BY <1>2 DEF vars, scanVars, trigVars, history
  <2>2. StopOrder'
    BY <2>1 DEF Inv, StopOrder
  <2>3. Alive' /\ downAt <= downAt'
    BY <1>1, <2>1, <2>2, AliveTrig
  <2> QED
    BY <1>1, <2>1, <2>2, <2>3, SamePlan, InvLess
<1>3. CASE ScanStep
  BY <1>1, <1>3, InvScanSelect, InvScanMoves, InvScanAdd, InvScanRest, InvScanMissedLater,
     InvScanDueNow, InvScanUpdate DEF ScanStep
<1>4. CASE Crash
  <2>1. Come
    BY <1>4 DEF Crash
  <2> QED
    BY <1>1, <1>4, <2>1, InvProcess
<1> QED
  BY <1>1, <1>2, <1>3, <1>4, InvTick, InvInfoService, InvTrigStep, InvStop, InvProcess
  DEF Next, EndOfModel

\* A failure is not forgotten.
LEMMA FailsStay ==
  ASSUME TypeOK, [Next]_vars, fails' = 0
  PROVE  fails = 0
<1>1. fails' \in {fails, fails + 1}
  <2>1. CASE ScanStep
    BY <2>1 DEF ScanStep, ScanSelect, ScanGetSet, ScanAdd, ScanNextJob, ScanUpdates, ScanRest,
                ScanMissed, ScanDueNow, ScanLater, ScanUpdate, LoopBody, bounds
  <2>2. CASE TrigStep
    BY <2>2 DEF TrigStep, TrigRead, TakePrevious, TakeCurrent, TrigRest, TrigPush
  <2>3. CASE InfoService
    BY <2>3 DEF InfoService, StartRead, StartWrite, Stop, Delete, SaveOrUpdate, Copy, bounds
  <2>4. CASE Tick \/ EndOfModel \/ UNCHANGED vars \/ StopScan \/ StopTrigger \/ Crash \/ Restart
    BY <2>4 DEF Tick, EndOfModel, StopScan, StopTrigger, Crash, Restart, vars, bounds
  <2>5. CASE ScanException \/ TrigException
    BY <2>5 DEF ScanException, TrigException
  <2> QED
    BY <2>1, <2>2, <2>3, <2>4, <2>5 DEF Next
<1> QED
  BY <1>1 DEF TypeOK

\* Everything that may still be planned, by a row, by a scan's copy of one or by a start under
\* way, lies ahead of what the ring, the trigger thread and the pool have had, through stops,
\* crashes and restarts, until a thread fails.
THEOREM PlansLieAhead ==
  ASSUME StartLag = 0, MayCrash => TrigLag + PreRead + 1 < Period
  PROVE  Spec => []OnceInv
<1> DEFINE I == TypeOK /\ OnceInv /\ (MayCrash => EarlyInv)
<1>1. Init => I
  BY InitType, InvInit, EarlyInit DEF OnceInv
<1>2. I /\ [Next]_vars => I'
  <2> SUFFICES ASSUME I, [Next]_vars PROVE I'
    OBVIOUS
  <2>1. (MayCrash => EarlyInv)'
    BY EarlyNext
  <2>2. ASSUME fails' = 0 PROVE Inv'
    <3>1. MayCrash => Come
      BY DEF EarlyInv
    <3>2. CASE fails = 0
      <4>1. ~ScanException /\ ~TrigException
        BY <2>2, <3>2 DEF ScanException, TrigException
      <4> QED
        BY <3>1, <3>2, <4>1, InvNext DEF OnceInv
    <3>3. fails = 0
      BY <2>2, FailsStay DEF EarlyInv
    <3> QED
      BY <3>2, <3>3
  <2> QED
    BY <2>1, <2>2, NextType DEF OnceInv
<1>3. I => OnceInv
  OBVIOUS
<1> QED
  BY <1>1, <1>2, <1>3, PTL DEF Spec

\* No occurrence of a cron job is ever handed to the trigger pool twice: not by the
\* scan's direct push and the ring, not by two scans, not around a stop, edit, delete or
\* start of the job, nor across a stop or a crash and a restart of the scheduler, until
\* a thread fails.
THEOREM PushedAtMostOnce ==
  ASSUME StartLag = 0, MayCrash => TrigLag + PreRead + 1 < Period
  PROVE  Spec => [](fails = 0 => AtMostOnce)
<1>1. OnceInv => (fails = 0 => AtMostOnce)
  BY DEF OnceInv, Inv
<1> QED
  BY <1>1, PlansLieAhead, PTL

-----------------------------------------------------------------------------
(* The refinement of CronFire *)

\* getNextValidTimeAfter answers with a match, or 0.
LEMMA NextMatches ==
  ASSUME NEW c \in Crons, NEW t \in Nat
  PROVE  NextValidTimeAfter(c, t) = 0 \/ NextValidTimeAfter(c, t) \in Seconds
<1> DEFINE later == {o \in Occ[c] : o > t}
           first == {o \in later : \A p \in later : o <= p}
<1>1. first \subseteq Occ[c] /\ Occ[c] \subseteq Seconds
  BY DEF Seconds
<1>2. CASE first = {}
  BY <1>2 DEF NextValidTimeAfter
<1>3. CASE first # {}
  <2>1. NextValidTimeAfter(c, t) = CHOOSE o \in first : TRUE
    BY <1>3 DEF NextValidTimeAfter
  <2>2. NextValidTimeAfter(c, t) \in first
    BY <1>3, <2>1
  <2> QED
    BY <1>1, <2>2
<1> QED
  BY <1>2, <1>3

\* refreshNextValidTime leaves a job stopped or with a match.
LEMMA RefreshedMatches ==
  ASSUME NEW info \in Info, NEW t \in Nat
  PROVE  Refreshed(info, t).st = "RUNNING" => Refreshed(info, t).next \in Seconds
<1> DEFINE n == NextValidTimeAfter(info.cron, t)
<1>1. info.cron \in Crons
  BY DEF Info
<1>2. n = 0 \/ n \in Seconds
  BY <1>1, NextMatches
<1>3. n # 0 => Refreshed(info, t).next = n
  BY DEF Refreshed, Info
<1>4. n = 0 => Refreshed(info, t).st = "STOPPED"
  BY DEF Refreshed, Info
<1> QED
  BY <1>2, <1>3, <1>4

\* The rows that the first process finds hold matches, and there is nothing else.
LEMMA MatchInit == Init => MatchInv
<1> SUFFICES ASSUME Init PROVE MatchInv
  OBVIOUS
<1>1. InRing = {} /\ jobIds = {}
  BY DEF Init, InRing
<1>2. \A j \in Jobs : mem[j].st # "RUNNING" /\ starting[j] = NoStart
  BY DEF Init, Blank
<1>3. \A j \in Jobs : row[j].st = "RUNNING" => row[j].next \in Seconds
  <2> SUFFICES ASSUME NEW j \in Jobs, row[j].st = "RUNNING" PROVE row[j].next \in Seconds
    OBVIOUS
  <2>1. row[j] \in InitRow
    BY DEF Init
  <2>2. PICK c \in Crons, t \in 0..Clock0 + StartDelay :
           /\ row[j] = [st |-> "RUNNING", last |-> 0, next |-> NextValidTimeAfter(c, t), cron |-> c]
           /\ row[j].next # 0
    BY <2>1 DEF InitRow
  <2>3. t \in Nat /\ row[j].next = NextValidTimeAfter(c, t)
    BY <2>2
  <2> QED
    BY <2>2, <2>3, NextMatches
<1>4. Matching
  BY <1>1, <1>2, <1>3 DEF Matching
<1> QED
  BY <1>4, ThreadsInit DEF MatchInv

\* What takes entries away, and leaves rows, copies and starts as they are or blank.
LEMMA MatchLess ==
  ASSUME MatchInv,
         \A j \in Jobs : row'[j] = row[j] \/ row'[j].st # "RUNNING",
         \A j \in Jobs : mem'[j] = mem[j] \/ mem'[j].st # "RUNNING",
         \A j \in Jobs : starting'[j] \in {starting[j], NoStart},
         InRing' \cup jobIds' \subseteq InRing \cup jobIds
  PROVE  Matching'
BY DEF MatchInv, Matching

\* Every step of the model plans matches only.
LEMMA MatchNext == MatchInv /\ [Next]_vars => MatchInv'
<1> SUFFICES ASSUME MatchInv, [Next]_vars PROVE Matching'
  BY ThreadsNext DEF MatchInv
<1> TypeOK /\ ThreadsInv
  BY DEF MatchInv
<1>1. \A j \in Jobs : Blank[j].st # "RUNNING"
  BY DEF Blank
<1>2. CASE Tick \/ EndOfModel \/ UNCHANGED vars \/ StopScan \/ StopTrigger
  <2>1. UNCHANGED <<row, mem, starting, ring, jobIds>>
    BY <1>2 DEF Tick, EndOfModel, StopScan, StopTrigger, scanKeeps, scanVars, trigVars, vars
  <2> QED
    BY <2>1, MatchLess DEF InRing
<1>3. CASE Crash \/ Restart
  <2>1. /\ row' = row /\ mem' = Blank /\ starting' = [j \in Jobs |-> NoStart]
        /\ ring' = [s \in 0..Period-1 |-> {}] /\ jobIds' = {}
    BY <1>3 DEF Crash, Restart, NoProcess, NoLocals
  <2>2. InRing' = {}
    BY <2>1 DEF InRing
  <2> QED
    BY <1>1, <2>1, <2>2, MatchLess
<1>4. CASE InfoService
  <2>1. UNCHANGED <<mem, ring, jobIds>> /\ InRing' = InRing
    BY <1>4 DEF InfoService, StartRead, StartWrite, Stop, Delete, SaveOrUpdate, Copy, scanVars,
                trigVars, InRing
  <2>2. PICK j \in Jobs : \/ StartRead(j) \/ StartWrite(j) \/ Stop(j) \/ Delete(j)
                          \/ \E c \in Crons : SaveOrUpdate(j, c)
                          \/ \E k \in Jobs : Copy(j, k)
    BY <1>4 DEF InfoService
  <2>3. CASE StartRead(j)
    <3>1. row[j].cron \in Crons /\ StartFrom \in Nat
      BY FieldTypes DEF StartFrom
    <3>2. NextValidTimeAfter(row[j].cron, StartFrom) \in Seconds
      BY <2>3, <3>1, NextMatches DEF StartRead
    <3>3. row' = row /\ starting' = [starting EXCEPT ![j] =
            [next |-> NextValidTimeAfter(row[j].cron, StartFrom), at |-> clock]]
      BY <2>3 DEF StartRead
    <3> QED
      BY <2>1, <3>2, <3>3 DEF MatchInv, Matching, TypeOK
  <2>4. CASE StartWrite(j)
    <3>1. starting[j] # NoStart /\ starting' = [starting EXCEPT ![j] = NoStart]
      BY <2>4 DEF StartWrite
    <3>2. \A k \in Jobs : row'[k] = row[k] \/ (k = j /\ row'[k].next = starting[j].next)
      BY <2>4 DEF StartWrite, TypeOK, Info
    <3> QED
      BY <2>1, <3>1, <3>2 DEF MatchInv, Matching, TypeOK
  <2>5. CASE ~StartRead(j) /\ ~StartWrite(j)
    <3>1. starting' = starting
      BY <2>2, <2>5 DEF Stop, Delete, SaveOrUpdate, Copy
    <3>2. \A k \in Jobs : row'[k] = row[k] \/ row'[k].st # "RUNNING"
      <4>1. row \in [Jobs -> Info]
        BY DEF TypeOK
      <4>2. CASE Stop(j)
        BY <4>1, <4>2 DEF Stop, Info
      <4>3. CASE Delete(j)
        BY <4>1, <4>3 DEF Delete, Info
      <4>4. CASE \E c \in Crons : SaveOrUpdate(j, c)
        BY <4>1, <4>4 DEF SaveOrUpdate
      <4>5. CASE \E k \in Jobs : Copy(j, k)
        BY <4>1, <4>5 DEF Copy
      <4> QED
        BY <2>2, <2>5, <4>2, <4>3, <4>4, <4>5
    <3> QED
      BY <2>1, <3>1, <3>2, MatchLess
  <2> QED
    BY <2>3, <2>4, <2>5
<1>5. CASE ScanSelect
  <2>1. mem' = row /\ UNCHANGED <<row, starting, ring, jobIds>>
    BY <1>5 DEF ScanSelect, scanKeeps
  <2> QED
    BY <2>1 DEF MatchInv, Matching, InRing
<1>6. CASE ScanGetSet \/ ScanNextJob \/ ScanUpdates \/ ScanRest \/ ScanException
  <2>1. UNCHANGED <<row, starting, ring, jobIds>> /\ mem' \in {mem, Blank}
    BY <1>6 DEF ScanGetSet, ScanNextJob, ScanUpdates, ScanRest, ScanException, ScanReturn,
                NoLocals, scanKeeps
  <2> QED
    BY <1>1, <2>1, MatchLess DEF InRing
<1>7. CASE ScanAdd
  <2> DEFINE t == mem[cur].next
             e == <<cur, t>>
             info == Refreshed(mem[cur], t)
  <2>1. /\ cur \in Jobs /\ mem[cur] \in Info /\ t \in Nat /\ Slot(t) \in 0..Period-1
        /\ mem[cur].st = "RUNNING"
    BY <1>7, SlotType DEF ScanAdd, TypeOK, Info, ScanLocals
  <2>2. info.st = "RUNNING" => info.next \in Seconds
    BY <2>1, RefreshedMatches
  <2>3. /\ mem' = [mem EXCEPT ![cur] = info] /\ UNCHANGED <<row, starting>>
        /\ jobIds' \in {jobIds, jobIds \cup {e}, {}}
        /\ ring' \in {ring, [ring EXCEPT ![Slot(t)] = @ \cup {e}]}
    BY <1>7 DEF ScanAdd
  <2>4. InRing' \subseteq InRing \cup {e}
    <3>1. \A s \in 0..Period-1 : ring'[s] \subseteq ring[s] \cup {e}
      BY <2>1, <2>3 DEF TypeOK
    <3> QED
      BY <3>1 DEF InRing
  <2>5. e[2] = t /\ t \in Seconds
    BY <2>1 DEF MatchInv, Matching
  <2>6. \A k \in Jobs : mem'[k] = IF k = cur THEN info ELSE mem[k]
    BY <2>1, <2>3 DEF TypeOK
  <2> HIDE DEF e, t, info
  <2>7. \A d \in InRing' \cup jobIds' : d[2] \in Seconds
    BY <2>3, <2>4, <2>5 DEF MatchInv, Matching
  <2> QED
    BY <2>2, <2>3, <2>6, <2>7 DEF MatchInv, Matching
<1>8. ASSUME NEW j \in Jobs, ScanMissed(j) \/ ScanDueNow(j) \/ ScanLater(j)
      PROVE  Matching'
  <2>1. PICK info \in Info : /\ LoopBody(j, info)
                             /\ info.st = "RUNNING" => info.next \in Seconds
    <3>1. mem[j] \in Info /\ mem[j].next \in Nat /\ clock \in Nat
      BY FieldTypes DEF TypeOK
    <3>2. CASE ScanMissed(j)
      BY <3>1, <3>2, RefreshedLater, RefreshedMatches DEF ScanMissed
    <3>3. CASE ScanDueNow(j)
      BY <3>1, <3>3, RefreshedLater, RefreshedMatches DEF ScanDueNow
    <3>4. CASE ScanLater(j)
      BY <3>1, <3>4 DEF ScanLater, MatchInv, Matching
    <3> QED
      BY <1>8, <3>2, <3>3, <3>4
  <2>2. mem' = [mem EXCEPT ![j] = info] /\ UNCHANGED <<row, starting, ring, jobIds>>
    BY <2>1 DEF LoopBody, scanKeeps
  <2>3. \A k \in Jobs : mem'[k] = IF k = j THEN info ELSE mem[k]
    BY <2>2 DEF TypeOK
  <2> QED
    BY <2>1, <2>2, <2>3 DEF MatchInv, Matching, InRing
<1>9. ASSUME NEW j \in Jobs, ScanUpdate(j)
      PROVE  Matching'
  <2>1. UNCHANGED <<mem, starting, ring, jobIds>>
    BY <1>9 DEF ScanUpdate, scanKeeps
  <2>2. LET i == [mem[j] EXCEPT !.cron = row[j].cron]
        IN  i.st = mem[j].st /\ i.next = mem[j].next
    BY DEF TypeOK, Info
  <2>3. \A k \in Jobs : \/ row'[k] = row[k]
                        \/ row'[k].st = mem[k].st /\ row'[k].next = mem[k].next
    BY <1>9, <2>2 DEF ScanUpdate, TypeOK
  <2> QED
    BY <2>1, <2>3 DEF MatchInv, Matching, InRing
<1>10. CASE TrigStep \/ TrigException
  <2>1. UNCHANGED <<row, mem, starting>>
    BY <1>10 DEF TrigStep, TrigRead, TakePrevious, TakeCurrent, TrigRest, TrigPush, TrigException,
                 TrigReturn, trigKeeps
  <2>2. CASE TakePrevious \/ TakeCurrent
    <3>1. \/ \E s \in 0..Period-1 : TakeSlot(s)
          \/ UNCHANGED <<ring, jobIds>>
      BY <2>2, TakeOf
    <3>2. CASE UNCHANGED <<ring, jobIds>>
      BY <2>1, <3>2, MatchLess DEF InRing
    <3>3. ASSUME NEW s \in 0..Period-1, TakeSlot(s)
          PROVE  InRing' \cup jobIds' \subseteq InRing \cup jobIds
      <4>1. jobIds' = ring[s] /\ \A r \in 0..Period-1 : ring'[r] \subseteq ring[r]
        BY <3>3 DEF TakeSlot, TypeOK
      <4> QED
        BY <4>1 DEF InRing
    <3> QED
      BY <2>1, <3>1, <3>2, <3>3, MatchLess
  <2>3. CASE ~(TakePrevious \/ TakeCurrent)
    <3>1. UNCHANGED ring /\ jobIds' \subseteq jobIds
      BY <1>10, <2>3 DEF TrigStep, TrigRead, TrigRest, TrigPush, TrigException, TrigReturn
    <3> QED
      BY <2>1, <3>1, MatchLess DEF InRing
  <2> QED
    BY <2>2, <2>3
<1> QED
  BY <1>2, <1>3, <1>4, <1>5, <1>6, <1>7, <1>8, <1>9, <1>10 DEF Next, ScanStep

\* A push of seconds that have come, match and, while no thread has failed, are new is one
\* of CronFire.
LEMMA PushFires ==
  ASSUME NEW j \in Jobs, NEW O, O # {}, Push(j, O), UNCHANGED <<clock, fails>>,
         \A o \in O : o \in Seconds /\ o <= clock,
         fails = 0 => O \cap PushedOccs(j) = {}, fails \in Nat
  PROVE  Promise!Next
<1>1. Promise!Answered(j) = PushedOccs(j)
  BY DEF Promise!Answered, PushedOccs
<1>2. O \in SUBSET Promise!Due(j)
  BY <1>1 DEF Promise!Due, Seconds
<1>3. Promise!Fire(j, O)
  BY <1>2 DEF Promise!Fire, Push
<1> QED
  BY <1>2, <1>3 DEF Promise!Next

\* A process starts as CronFire does.
LEMMA PromiseInit == Init => Promise!Init
BY DEF Init, Promise!Init

\* Every step of the scheduler is one of CronFire, or leaves its variables alone.
LEMMA PromiseNext ==
  ASSUME OnceInv, EarlyInv, EarlyInv', MatchInv, [Next]_vars
  PROVE  [Promise!Next]_<<clock, pushed, fails > 0>>
<1> TypeOK /\ ThreadsInv
  BY DEF EarlyInv, ThreadsInv
<1>0. fails \in Nat
  BY DEF TypeOK
<1>1. CASE Tick
  <2>1. Promise!Tick
    BY <1>1 DEF Tick, Promise!Tick, history, bounds
  <2> QED
    BY <2>1 DEF Promise!Next
<1>2. CASE ScanException \/ TrigException
  <2>1. fails' = fails + 1 /\ UNCHANGED <<clock, pushed>>
    BY <1>2 DEF ScanException, TrigException, ScanReturn, TrigReturn, scanKeeps, history
  <2>2. fails' > 0
    BY <1>0, <2>1
  <2>3. Promise!Fail
    BY <2>1, <2>2 DEF Promise!Fail
  <2> QED
    BY <2>3 DEF Promise!Next
<1>3. ASSUME NEW j \in Jobs, ScanDueNow(j)
      PROVE  Promise!Next
  <2> DEFINE O == {mem[j].next}
  <2>1. j \in jobInfos /\ Push(j, O) /\ UNCHANGED <<clock, fails>>
    BY <1>3 DEF ScanDueNow, LoopBody, scanKeeps
  <2>2. mem[j].next = nowTime /\ nowTime <= clock /\ mem[j].st = "RUNNING"
    BY <1>3, <2>1, EarlyDueNow, ThreadsLoopBody DEF ThreadsInv, ScanLocals
  <2>3. \A o \in O : o \in Seconds /\ o <= clock
    BY <2>2 DEF MatchInv, Matching
  <2>4. fails = 0 => O \cap PushedOccs(j) = {}
    BY <1>3, DueNowNew DEF OnceInv
  <2>5. O # {}
    OBVIOUS
  <2> HIDE DEF O
  <2> QED
    BY <1>0, <2>1, <2>3, <2>4, <2>5, PushFires
<1>4. ASSUME NEW j \in Jobs, TrigPush(j)
      PROVE  Promise!Next
  <2> DEFINE O == Of(j, jobIds)
  <2>1. O # {} /\ Push(j, O) /\ UNCHANGED <<clock, fails>>
    BY <1>4 DEF TrigPush, trigKeeps
  <2>2. \A o \in O : <<j, o>> \in jobIds /\ <<j, o>>[2] = o
    BY DEF Of
  <2>3. \A o \in O : o \in Seconds /\ o <= clock
    BY <2>2 DEF MatchInv, Matching, EarlyInv, Come
  <2>4. fails = 0 => O \cap PushedOccs(j) = {}
    BY TakenNew DEF OnceInv
  <2> HIDE DEF O
  <2> QED
    BY <1>0, <2>1, <2>3, <2>4, PushFires
<1>5. CASE ScanStep /\ ~\E j \in Jobs : ScanDueNow(j)
  <2>1. UNCHANGED <<clock, pushed, fails>>
    BY <1>5 DEF ScanStep, ScanSelect, ScanGetSet, ScanAdd, ScanNextJob, ScanUpdates, ScanRest,
                ScanReturn, ScanMissed, ScanLater, ScanUpdate, LoopBody, scanKeeps, history, bounds
  <2> QED
    BY <2>1
<1>6. CASE TrigStep /\ ~\E j \in Jobs : TrigPush(j)
  <2>1. UNCHANGED <<clock, pushed, fails>>
    BY <1>6 DEF TrigStep, TrigRead, TakePrevious, TakeCurrent, TrigRest, TrigReturn, trigKeeps,
                history
  <2> QED
    BY <2>1
<1>7. CASE InfoService \/ EndOfModel \/ UNCHANGED vars \/ StopScan \/ StopTrigger \/ Crash \/ Restart
  <2>1. UNCHANGED <<clock, pushed, fails>>
    BY <1>7 DEF InfoService, StartRead, StartWrite, Stop, Delete, SaveOrUpdate, Copy, EndOfModel,
                StopScan, StopTrigger, Crash, Restart, scanKeeps, history, bounds, vars
  <2> QED
    BY <2>1
<1> QED
  BY <1>1, <1>2, <1>3, <1>4, <1>5, <1>6, <1>7 DEF Next

\* Whatever is planned anywhere, by a row, the scan's copy of one, a call of start, the ring or
\* the trigger thread, is a second that an expression matches.
THEOREM OnlyMatchesPlanned == Spec => []MatchInv
BY MatchInit, MatchNext, PTL DEF Spec

\* The scheduler implements CronFire: what it pushes are seconds that an expression
\* matches, when they have come, and each once unless a thread has failed; also when its
\* process is killed or stopped at any point and started again.
THEOREM SchedulerImplementsCronFire ==
  ASSUME StartLag = 0, TrigLag + PreRead + 1 < Period
  PROVE  Spec => ImplementsCronFire
<1>1. OnceInv /\ EarlyInv /\ EarlyInv' /\ MatchInv /\ [Next]_vars
        => [Promise!Next]_<<clock, pushed, fails > 0>>
  BY PromiseNext
<1> QED
  BY <1>1, OnlyMatchesPlanned, PromiseInit, NothingBeyondTheTurn, PlansLieAhead, PTL
  DEF Spec, ImplementsCronFire, Promise!Spec
=============================================================================

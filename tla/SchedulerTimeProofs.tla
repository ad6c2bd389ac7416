------------------------- MODULE SchedulerTimeProofs -------------------------
(* OnTime and NoSkip for every value of the constants, where the threads   *)
(* are Punctual: from TimelyInv, which says how far the clock is behind     *)
(* what is planned, and SkipInv, which says where an owed occurrence is.    *)
EXTENDS SchedulerOnceProofs, WellFoundedInduction

USE ConstantTypes

-----------------------------------------------------------------------------
(* The threads' clocks *)

\* No thread fails, stops or dies where the bounds forbid it.
LEMMA Undisturbed ==
  ASSUME Punctual, TypeOK
  PROVE  ~ScanException /\ ~TrigException /\ ~StopScan /\ ~Crash
BY DEF Punctual, TypeOK, ScanException, TrigException, StopScan, Crash

\* Punctual in numbers.
LEMMA Lags ==
  ASSUME Punctual
  PROVE  /\ TrigLag = 0 /\ StartLag = 0 /\ PreRead + 1 < Period
         /\ ScanLag + ScanLag + ScanLag + ScanSleep <= PreRead
         /\ Clock0 \in Nat /\ ScanLag \in Nat /\ ScanSleep \in Nat /\ PreRead \in Nat
BY DEF Punctual

\* Each thread's time follows the clock within its lag.
LEMMA InTimeNext ==
  ASSUME Punctual, ThreadsInv, InTime, [Next]_vars
  PROVE  InTime'
<1> TypeOK
  BY DEF ThreadsInv
<1>1. /\ clock \in Nat /\ wake \in Nat /\ nowTime \in Nat /\ trigNow \in Nat
      /\ Clock0 \in Nat /\ ScanLag \in Nat /\ ScanSleep \in Nat /\ TrigLag = 0
  BY Lags DEF TypeOK
<1>2. /\ ~ScanException /\ ~TrigException /\ ~StopScan /\ ~Crash
      /\ ~StopTrigger /\ ~Restart
  BY Undisturbed DEF InTime, StopTrigger, Restart, Up
<1>3. CASE Tick
  <2>1. /\ clock' = clock + 1 /\ clock < trigNow
        /\ clock < (IF scanPc = "sleep" THEN wake ELSE nowTime) + ScanLag
    BY <1>1, <1>3 DEF Tick, InTime, Up
  <2>2. UNCHANGED <<scanVars, trigVars, fails>>
    BY <1>3 DEF Tick, bounds
  <2>3. trigPc = "sleep" /\ trigNow = clock + 1 /\ held # "iterated"
    BY <1>1, <2>1 DEF InTime, TypeOK
  <2> QED
    BY <1>1, <2>1, <2>2, <2>3 DEF InTime, scanVars, trigVars
<1>4. CASE InfoService \/ EndOfModel \/ UNCHANGED vars
  <2>1. UNCHANGED <<clock, scanVars, trigVars, fails>>
    BY <1>4 DEF InfoService, StartRead, StartWrite, Stop, Delete, SaveOrUpdate, Copy,
                EndOfModel, vars, bounds
  <2> QED
    BY <2>1 DEF InTime, scanVars, trigVars
<1>5. CASE ScanStep
  <2>1. CASE ScanSelect
    <3>1. /\ UNCHANGED <<clock, scanRunning, trigRunning, trigPc, trigNow, jobIds, held, fails>>
          /\ nowTime' = clock /\ scanPc' = "jobs"
      BY <2>1 DEF ScanSelect, scanKeeps
    <3> QED
      BY <1>1, <3>1 DEF InTime
  <2>2. CASE ScanAdd
    <3>1. /\ UNCHANGED <<clock, scanRunning, trigRunning, trigNow, nowTime, fails>>
          /\ scanPc = "add" /\ scanPc' = "while" /\ held' = "none"
          /\ \/ UNCHANGED <<trigPc, jobIds>>
             \/ held = "iterated" /\ trigPc' = trigPc
             \/ held = "iterated" /\ trigPc' = "sleep" /\ jobIds' = {}
      BY <2>2 DEF ScanAdd, bounds
    <3> QED
      BY <1>1, <3>1 DEF InTime
  <2>3. CASE ScanRest
    <3>1. /\ UNCHANGED <<clock, scanRunning, trigRunning, trigPc, trigNow, jobIds, fails>>
          /\ scanPc' = "sleep" /\ wake' = clock + ScanSleep /\ held' = "none"
      BY <2>3 DEF ScanRest, ScanReturn, NoLocals, scanKeeps, InTime
    <3> QED
      BY <1>1, <3>1 DEF InTime
  <2>4. ASSUME NEW j \in Jobs,
               \/ ScanGetSet \/ ScanNextJob \/ ScanUpdates
               \/ ScanMissed(j) \/ ScanDueNow(j) \/ ScanLater(j) \/ ScanUpdate(j)
        PROVE  InTime'
    <3>1. /\ UNCHANGED <<clock, scanRunning, trigRunning, trigPc, trigNow, jobIds, nowTime, fails>>
          /\ scanPc \notin {"sleep", "end"} /\ scanPc' \notin {"sleep", "end"}
          /\ held' = held \/ held' = "ring"
      BY <2>4 DEF ScanGetSet, ScanNextJob, ScanUpdates, ScanMissed, ScanDueNow, ScanLater,
                  ScanUpdate, LoopBody, scanKeeps
    <3> QED
      BY <3>1 DEF InTime
  <2> QED
    BY <1>5, <2>1, <2>2, <2>3, <2>4 DEF ScanStep
<1>6. CASE TrigStep
  <2>1. /\ UNCHANGED <<clock, scanRunning, scanPc, wake, nowTime>>
        /\ trigRunning' = trigRunning /\ fails' = fails
    BY <1>6 DEF TrigStep, TrigRead, TakePrevious, TakeCurrent, TrigRest, TrigPush, TrigReturn,
                trigKeeps
  <2>2. CASE TrigRead
    BY <1>1, <2>1, <2>2 DEF TrigRead, InTime
  <2>3. CASE TakePrevious \/ TakeCurrent
    <3>1. /\ trigPc \in {"read", "previous"} /\ trigPc' \in {"previous", "current"}
          /\ trigNow' = trigNow
      BY <2>3, TakeOf
    <3> QED
      BY <2>1, <3>1 DEF InTime
  <2>4. CASE TrigRest
    <3>1. /\ trigPc = "current" /\ trigPc' = "sleep" /\ trigNow' = trigNow + 1 /\ jobIds' = {}
          /\ held' # "iterated"
      BY <2>4 DEF TrigRest, TrigReturn, NextSecond, InTime
    <3> QED
      BY <1>1, <2>1, <3>1 DEF InTime
  <2>5. ASSUME NEW j \in Jobs, TrigPush(j) PROVE InTime'
    <3>1. UNCHANGED <<held, trigPc, trigNow>> /\ trigPc \in {"previous", "current"}
      BY <2>5 DEF TrigPush
    <3> QED
      BY <2>1, <3>1 DEF InTime
  <2> QED
    BY <1>6, <2>2, <2>3, <2>4, <2>5 DEF TrigStep
<1> QED
  BY <1>2, <1>3, <1>4, <1>5, <1>6 DEF Next

-----------------------------------------------------------------------------
(* What is planned is not past *)

\* What the first scan may find missed is not yet due.
LEMMA FirstScanBeforeDue ==
  ASSUME Punctual, ThreadsInv, InTime, scanPc # "sleep", FirstScan,
         NEW o \in Nat, Due(o)
  PROVE  o > clock
<1>1. clock \in Nat /\ nowTime \in Nat
  BY DEF ThreadsInv, TypeOK
<1>2. clock <= nowTime + ScanLag /\ nowTime <= Clock0 + ScanLag /\ o > Clock0 + PreRead
  BY DEF InTime, FirstScan, Due
<1> QED
  BY <1>1, <1>2, Lags

\* A scan's copy of a row is not past, if it is due.
LEMMA CopyAhead ==
  ASSUME Punctual, ThreadsInv, InTime, ScansInTime,
         NEW j \in Jobs, InScan(j), mem[j].st = "RUNNING", NEW o \in Nat, mem[j].next <= o,
         Due(o)
  PROVE  o > clock
<1>1. scanPc # "sleep"
  BY DEF InScan
<1>2. CASE FirstScan
  BY <1>1, <1>2, FirstScanBeforeDue
<1>3. CASE ~FirstScan
  <2>1. mem[j].next > nowTime + ScanLag
    BY <1>3 DEF ScansInTime
  <2>2. clock <= nowTime + ScanLag
    BY <1>1 DEF InTime
  <2>3. mem[j].next \in Nat /\ clock \in Nat /\ nowTime \in Nat
    BY FieldTypes DEF ThreadsInv
  <2> QED
    BY <2>1, <2>2, <2>3, Lags
<1> QED
  BY <1>2, <1>3

\* Neither is a row.
LEMMA RowAhead ==
  ASSUME Punctual, ThreadsInv, InTime, ScansInTime,
         NEW j \in Jobs, ~InScan(j), row[j].st = "RUNNING", NEW o \in Nat, row[j].next <= o,
         Due(o)
  PROVE  o >= clock
<1>1. row[j].next \in Nat /\ clock \in Nat /\ nowTime \in Nat /\ wake \in Nat
  BY FieldTypes DEF ThreadsInv, TypeOK
<1>2. CASE scanPc = "sleep" /\ wake = Clock0
  <2>1. clock <= Clock0 + ScanLag /\ o > Clock0 + PreRead
    BY <1>2 DEF InTime, Due
  <2> QED
    BY <1>1, <2>1, Lags
<1>3. CASE scanPc = "sleep" /\ wake # Clock0
  <2>1. row[j].next + ScanSleep + ScanLag > wake + PreRead /\ clock <= wake + ScanLag
    BY <1>3 DEF InTime, ScansInTime
  <2> QED
    BY <1>1, <2>1, Lags
<1>4. CASE scanPc # "sleep"
  <2>1. row[j].next > nowTime + PreRead /\ clock <= nowTime + ScanLag
    BY <1>4 DEF InTime, ScansInTime, maxTriggerTime
  <2> QED
    BY <1>1, <2>1, Lags
<1> QED
  BY <1>2, <1>3, <1>4

\* A push within its second keeps OnTime.
LEMMA PushOnTime ==
  ASSUME TypeOK, Punctual, OnTime, NEW j \in Jobs, NEW O \in SUBSET Nat, Push(j, O),
         \A o \in O : Due(o) => o >= clock
  PROVE  OnTime'
<1> SUFFICES ASSUME NEW k \in Jobs, NEW i \in DOMAIN pushed'[k], NEW o \in pushed'[k][i].occs,
                    o > Clock0 + PreRead
             PROVE  pushed'[k][i].at <= o
  BY DEF OnTime
<1>1. \/ i \in DOMAIN pushed[k] /\ pushed'[k][i] = pushed[k][i]
      \/ k = j /\ pushed'[k][i].occs = O /\ pushed'[k][i].at = clock
  BY PushRecord
<1>2. CASE i \in DOMAIN pushed[k] /\ pushed'[k][i] = pushed[k][i]
  BY <1>2 DEF OnTime
<1>3. CASE k = j /\ pushed'[k][i].occs = O /\ pushed'[k][i].at = clock
  <2>1. o \in O /\ o \in Nat /\ Due(o)
    BY <1>3 DEF Due
  <2>2. o >= clock /\ clock \in Nat
    BY <2>1 DEF TypeOK
  <2> QED
    BY <1>3, <2>1, <2>2
<1> QED
  BY <1>1, <1>2, <1>3

\* What leaves the ring, the trigger thread and the history alone, or takes from them.
LEMMA EntriesFewer ==
  ASSUME EntriesInTime, UNCHANGED <<clock, pushed>>, InRing' \subseteq InRing,
         jobIds' \subseteq jobIds, ToTake => ToTake'
  PROVE  EntriesInTime'
<1>1. OnTime'
  BY DEF EntriesInTime, OnTime
<1> QED
  BY <1>1 DEF EntriesInTime, Due

\* Time passes only when the trigger thread has taken the slot of the second.
LEMMA EntriesTick ==
  ASSUME Punctual, TypeOK, InTime, EntriesInTime, Tick
  PROVE  EntriesInTime'
<1>1. /\ clock \in Nat /\ trigNow \in Nat /\ trigPc \in {"sleep", "read", "previous", "current", "end"}
      /\ clock' = clock + 1 /\ UNCHANGED <<ring, trigPc, trigNow, jobIds, pushed>>
  BY DEF TypeOK, Tick, trigVars, history
<1>2. clock < trigNow
  BY <1>1, Lags DEF Tick, InTime, Up
<1>3. trigPc = "sleep" /\ trigNow = clock + 1 /\ jobIds = {}
  BY <1>1, <1>2 DEF InTime
<1>4. ~ToTake /\ ToTake'
  BY <1>1, <1>3 DEF ToTake
<1>5. InRing' = InRing /\ \A e \in InRing : e[2] \in Nat
  BY <1>1, EntryTypes DEF InRing
<1>6. \A e \in InRing : Due(e[2]) => e[2] >= clock /\ e[2] # clock
  BY <1>4 DEF EntriesInTime
<1>7. \A e \in InRing : Due(e[2]) => e[2] >= clock + 1
  BY <1>1, <1>5, <1>6
<1>8. OnTime'
  BY <1>1 DEF EntriesInTime, OnTime
<1> QED
  BY <1>1, <1>3, <1>4, <1>5, <1>7, <1>8 DEF EntriesInTime, Due

\* What the scan puts into the ring or pushes is not past.
LEMMA EntriesScan ==
  ASSUME Punctual, ThreadsInv, InTime, EntriesInTime, ScansInTime, ScanStep
  PROVE  EntriesInTime'
<1> TypeOK
  BY DEF ThreadsInv
<1>1. CASE ScanAdd
  <2> DEFINE t == mem[cur].next
             e == <<cur, t>>
  <2>1. /\ scanPc = "add" /\ cur \in Jobs /\ InScan(cur) /\ mem[cur].st = "RUNNING"
        /\ t \in Nat /\ clock \in Nat /\ e[2] = t /\ Slot(t) \in 0..Period-1
    BY <1>1, FieldTypes, SlotType DEF ScanAdd, TypeOK, ThreadsInv, ScanLocals, InScan
  <2>2. Due(t) => t > clock
    <3>1. t <= t
      BY <2>1
    <3> QED
      BY <2>1, <3>1, CopyAhead
  <2>3. /\ UNCHANGED <<clock, pushed, trigNow>>
        /\ ring' \in {ring, [ring EXCEPT ![Slot(t)] = @ \cup {e}]}
        /\ jobIds' \subseteq jobIds \cup {e}
        /\ trigPc' = trigPc \/ (trigPc' = "sleep" /\ held = "iterated")
    BY <1>1 DEF ScanAdd, history
  <2>4. ToTake => ToTake'
    BY <2>3 DEF ToTake, InTime
  <2>5. InRing' \subseteq InRing \cup {e}
    <3>1. \A s \in 0..Period-1 : ring'[s] \subseteq ring[s] \cup {e}
      BY <2>1, <2>3 DEF TypeOK
    <3> QED
      BY <3>1 DEF InRing
  <2> HIDE DEF t, e
  <2>6. /\ \A x \in InRing' : Due(x[2]) => x[2] >= clock /\ (x[2] = clock => ToTake')
        /\ \A x \in jobIds' : Due(x[2]) => x[2] >= clock
    BY <2>1, <2>2, <2>3, <2>4, <2>5 DEF EntriesInTime
  <2>7. OnTime'
    BY <2>3 DEF EntriesInTime, OnTime
  <2> QED
    BY <2>3, <2>6, <2>7 DEF EntriesInTime, Due
<1>2. ASSUME NEW j \in Jobs, ScanDueNow(j)
      PROVE  EntriesInTime'
  <2>1. /\ InScan(j) /\ mem[j].st = "RUNNING" /\ mem[j].next \in Nat
        /\ Push(j, {mem[j].next}) /\ UNCHANGED <<clock, ring, jobIds, trigPc, trigNow>>
    <3>1. j \in jobInfos
      BY <1>2 DEF ScanDueNow
    <3> QED
      BY <1>2, <3>1, ThreadsLoopBody DEF ScanDueNow, LoopBody, scanKeeps
  <2>2. \A o \in {mem[j].next} : Due(o) => o >= clock
    <3>1. mem[j].next <= mem[j].next
      BY <2>1
    <3>2. Due(mem[j].next) => mem[j].next > clock
      BY <2>1, <3>1, CopyAhead
    <3> QED
      BY <2>1, <3>2 DEF TypeOK
  <2>3. OnTime'
    BY <2>1, <2>2, PushOnTime DEF EntriesInTime
  <2>4. InRing' = InRing /\ ToTake' = ToTake
    BY <2>1 DEF InRing, ToTake
  <2> QED
    BY <2>1, <2>3, <2>4 DEF EntriesInTime, Due
<1>3. ASSUME NEW j \in Jobs,
             \/ ScanSelect \/ ScanGetSet \/ ScanNextJob \/ ScanUpdates \/ ScanRest
             \/ ScanMissed(j) \/ ScanLater(j) \/ ScanUpdate(j)
      PROVE  EntriesInTime'
  <2>1. UNCHANGED <<clock, ring, jobIds, pushed, trigPc, trigNow>>
    BY <1>3 DEF ScanSelect, ScanGetSet, ScanNextJob, ScanUpdates, ScanRest, ScanReturn,
                ScanMissed, ScanLater, ScanUpdate, LoopBody, scanKeeps
  <2>2. InRing' = InRing /\ ToTake' = ToTake
    BY <2>1 DEF InRing, ToTake
  <2> QED
    BY <2>1, <2>2, EntriesFewer
<1> QED
  BY <1>1, <1>2, <1>3 DEF ScanStep

\* The trigger thread empties the slot of the second before it rests.
LEMMA EntriesTrig ==
  ASSUME Punctual, ThreadsInv, InTime, EntriesInTime, TrigStep
  PROVE  EntriesInTime'
<1> TypeOK
  BY DEF ThreadsInv
<1>1. clock \in Nat /\ clock' = clock
  BY DEF TypeOK, TrigStep, TrigRead, TakePrevious, TakeCurrent, TrigRest, TrigPush, TrigReturn,
         trigKeeps
<1>2. CASE TrigRead
  <2>1. UNCHANGED <<ring, jobIds, pushed>> /\ trigPc' = "read"
    BY <1>2 DEF TrigRead
  <2>2. InRing' = InRing /\ ToTake'
    BY <2>1 DEF InRing, ToTake
  <2> QED
    BY <1>1, <2>1, <2>2, EntriesFewer
<1>3. CASE TrigRest
  <2>1. /\ trigPc = "current" /\ trigPc' = "sleep" /\ jobIds' = {}
        /\ UNCHANGED <<ring, pushed>>
    BY <1>3 DEF TrigRest, TrigReturn, history, InTime
  <2>2. InRing' = InRing /\ ~ToTake
    BY <2>1 DEF InRing, ToTake
  <2> QED
    BY <1>1, <2>1, <2>2, EntriesFewer
<1>4. ASSUME NEW j \in Jobs, TrigPush(j)
      PROVE  EntriesInTime'
  <2> DEFINE O == Of(j, jobIds)
  <2>1. /\ Push(j, O) /\ jobIds' \subseteq jobIds
        /\ UNCHANGED <<ring, trigPc, trigNow>>
    BY <1>4 DEF TrigPush
  <2>2. \A o \in O : o \in Nat /\ <<j, o>> \in jobIds /\ <<j, o>>[2] = o
    BY EntryTypes DEF Of
  <2>3. \A o \in O : Due(o) => o >= clock
    BY <2>2 DEF EntriesInTime
  <2> HIDE DEF O
  <2>4. OnTime'
    BY <2>1, <2>2, <2>3, PushOnTime DEF EntriesInTime
  <2>5. InRing' = InRing /\ ToTake' = ToTake
    BY <1>1, <2>1 DEF InRing, ToTake
  <2> QED
    BY <1>1, <2>1, <2>4, <2>5 DEF EntriesInTime, Due
<1>5. CASE TakePrevious \/ TakeCurrent
  <2>1. /\ trigPc \in {"read", "previous"} /\ UNCHANGED <<trigNow, pushed>>
        /\ InRing' \subseteq InRing /\ jobIds' \subseteq InRing \cup jobIds
    <3>1. /\ trigPc \in {"read", "previous"} /\ UNCHANGED <<trigNow, pushed>>
          /\ \/ \E s \in 0..Period-1 : TakeSlot(s)
             \/ UNCHANGED <<ring, jobIds>>
      BY <1>5, TakeOf
    <3>2. CASE UNCHANGED <<ring, jobIds>>
      BY <3>1, <3>2 DEF InRing
    <3>3. ASSUME NEW s \in 0..Period-1, TakeSlot(s)
          PROVE  InRing' \subseteq InRing /\ jobIds' \subseteq InRing
      <4>1. jobIds' = ring[s] /\ \A u \in 0..Period-1 : ring'[u] \subseteq ring[u]
        BY <3>3 DEF TakeSlot, TypeOK
      <4> QED
        BY <4>1 DEF InRing
    <3> QED
      BY <3>1, <3>2, <3>3
  <2>2. trigNow = clock
    BY <2>1, <1>5 DEF InTime, TakePrevious, TakeCurrent
  <2>3. \A e \in InRing' : e[2] = clock => ToTake'
    <3>1. CASE TakePrevious
      BY <3>1 DEF TakePrevious, ToTake
    <3>2. CASE TakeCurrent
      <4>1. TakeSlot(Slot(clock)) /\ Slot(clock) \in 0..Period-1
        BY <1>1, <2>2, <3>2, SlotType DEF TakeCurrent
      <4>2. ring'[Slot(clock)] = {} /\ \A u \in 0..Period-1 : ring'[u] \subseteq ring[u]
        BY <4>1 DEF TakeSlot, TypeOK
      <4>3. ASSUME NEW e \in InRing', e[2] = clock
            PROVE  FALSE
        <5>1. PICK u \in 0..Period-1 : e \in ring'[u]
          BY <4>3 DEF InRing
        <5>2. Slot(e[2]) = u
          BY <4>2, <5>1 DEF ThreadsInv, SlotsRight
        <5> QED
          BY <4>2, <4>3, <5>1, <5>2
      <4> QED
        BY <4>3
    <3> QED
      BY <1>5, <3>1, <3>2
  <2>4. /\ \A e \in InRing' : Due(e[2]) => e[2] >= clock
        /\ \A e \in jobIds' : Due(e[2]) => e[2] >= clock
    BY <2>1 DEF EntriesInTime
  <2>5. OnTime'
    BY <2>1 DEF EntriesInTime, OnTime
  <2> QED
    BY <1>1, <2>3, <2>4, <2>5 DEF EntriesInTime, Due
<1> QED
  BY <1>2, <1>3, <1>4, <1>5 DEF TrigStep

-----------------------------------------------------------------------------
(* The scans are in time *)

\* What a row is planned to next, when InfoService has written it, is no less ahead than
\* the scans look.
LEMMA ScansInfoService ==
  ASSUME Punctual, ThreadsInv, StartsAhead, InTime, ScansInTime, InfoService
  PROVE  ScansInTime'
<1> TypeOK
  BY DEF ThreadsInv
<1>1. UNCHANGED <<clock, scanVars>>
  BY DEF InfoService, StartRead, StartWrite, Stop, Delete, SaveOrUpdate, Copy
<1>2. UNCHANGED <<clock, scanPc, wake, nowTime, jobInfos, picked, mem, cur>>
  BY <1>1 DEF scanVars
<1>3. ASSUME NEW k \in Jobs
      PROVE  \/ row'[k].st # "RUNNING" \/ row'[k] = row[k]
             \/ row'[k].next > clock + StartDelay /\ row'[k].next \in Nat
  <2>1. PICK j \in Jobs : \/ StartRead(j) \/ StartWrite(j) \/ Stop(j) \/ Delete(j)
                          \/ \E c \in Crons : SaveOrUpdate(j, c)
                          \/ \E i \in Jobs : Copy(j, i)
    BY DEF InfoService
  <2>2. row[j] \in Info /\ row \in [Jobs -> Info]
    BY DEF TypeOK
  <2>3. CASE StartRead(j)
    BY <2>3 DEF StartRead
  <2>4. CASE StartWrite(j)
    <3>1. starting[j].next > clock + StartDelay /\ starting[j].next \in Nat
      BY <2>4, FieldTypes DEF StartWrite, StartsAhead
    <3> QED
      BY <2>2, <2>4, <3>1 DEF StartWrite, Info
  <2>5. CASE Stop(j)
    BY <2>2, <2>5 DEF Stop, Info
  <2>6. CASE Delete(j)
    BY <2>2, <2>6 DEF Delete, Info
  <2>7. ASSUME NEW c \in Crons, SaveOrUpdate(j, c)
        PROVE  row'[k].st # "RUNNING" \/ row'[k] = row[k]
    BY <2>2, <2>7 DEF SaveOrUpdate
  <2>8. ASSUME NEW i \in Jobs, Copy(j, i)
        PROVE  row'[k].st # "RUNNING" \/ row'[k] = row[k]
    BY <2>2, <2>8 DEF Copy
  <2> QED
    BY <2>1, <2>3, <2>4, <2>5, <2>6, <2>7, <2>8
<1>4. ASSUME NEW k \in Jobs, row'[k].next > clock + StartDelay, row'[k].next \in Nat
      PROVE  IF scanPc = "sleep"
             THEN row'[k].next + ScanSleep + ScanLag > wake + PreRead
             ELSE row'[k].next > maxTriggerTime
  <2>1. /\ clock \in Nat /\ wake \in Nat /\ nowTime \in Nat /\ nowTime <= clock
        /\ scanPc = "sleep" => wake <= clock + ScanSleep
    BY DEF TypeOK, ThreadsInv, ScanLocals, InTime
  <2>2. row'[k].next > clock + PreRead
    BY <1>4, <2>1
  <2>3. scanPc = "sleep" => row'[k].next + ScanSleep + ScanLag > wake + PreRead
    BY <1>4, <2>1, <2>2, Lags
  <2>4. row'[k].next > nowTime + PreRead
    BY <1>4, <2>1, <2>2
  <2> QED
    BY <2>3, <2>4 DEF maxTriggerTime
<1>5. \A k \in Jobs : InScan(k)' = InScan(k) /\ Planned(k)' = Planned(k)
  BY <1>2 DEF InScan, Planned
<1>6. FirstScan' = FirstScan /\ maxTriggerTime' = maxTriggerTime
  BY <1>2 DEF FirstScan, maxTriggerTime
<1> QED
  BY <1>2, <1>3, <1>4, <1>5, <1>6 DEF ScansInTime

\* A step of the scan that leaves the rows alone: what it is done with is planned far enough.
LEMMA ScansLocal ==
  ASSUME ScansInTime, UNCHANGED <<row, nowTime>>, scanPc # "sleep", scanPc' # "sleep",
         \A j \in Jobs : InScan(j)' = InScan(j),
         \A j \in Jobs : InScan(j) /\ mem'[j].st = "RUNNING" =>
           /\ FirstScan \/ mem'[j].next > nowTime + ScanLag
           /\ Planned(j)' => mem'[j].next > maxTriggerTime
  PROVE  ScansInTime'
BY DEF ScansInTime, FirstScan, maxTriggerTime

\* A loop body moves its job ahead, and has it still to plan.
LEMMA ScansLoopBody ==
  ASSUME Punctual, ThreadsInv, ScansInTime, NEW j \in Jobs,
         ScanMissed(j) \/ ScanDueNow(j) \/ ScanLater(j)
  PROVE  ScansInTime'
<1> TypeOK
  BY DEF ThreadsInv
<1>1. j \in jobInfos /\ scanPc = "jobs"
  BY DEF ScanMissed, ScanDueNow, ScanLater
<1>2. /\ mem[j].st = "RUNNING" /\ mem[j].next \in Nat /\ InScan(j)
  BY <1>1, ThreadsLoopBody
<1>3. PICK info \in Info : /\ info.st = "RUNNING" => info.next >= mem[j].next
                           /\ LoopBody(j, info)
  BY <1>1, ThreadsLoopBody
<1>4. /\ scanPc' = "while" /\ cur' = j /\ jobInfos' = jobInfos \ {j}
      /\ mem'[j] = info /\ \A k \in Jobs \ {j} : mem'[k] = mem[k]
      /\ UNCHANGED <<row, nowTime, picked>>
  BY <1>3 DEF LoopBody, scanKeeps, TypeOK
<1>5. \A k \in Jobs : InScan(k)' = InScan(k)
  BY <1>1, <1>4 DEF InScan
<1>6. \A k \in Jobs \ {j} : Planned(k)' => Planned(k)
  BY <1>1, <1>4, <1>5 DEF Planned
<1>7. ~Planned(j)'
  BY <1>4 DEF Planned
<1>8. info.st = "RUNNING" => FirstScan \/ info.next > nowTime + ScanLag
  <2>1. info.next \in Nat /\ nowTime \in Nat
    BY DEF Info, TypeOK
  <2>2. FirstScan \/ mem[j].next > nowTime + ScanLag
    BY <1>2 DEF ScansInTime
  <2> QED
    BY <1>2, <1>3, <2>1, <2>2, Lags
<1>9. \A k \in Jobs : InScan(k) /\ mem'[k].st = "RUNNING" =>
        /\ FirstScan \/ mem'[k].next > nowTime + ScanLag
        /\ Planned(k)' => mem'[k].next > maxTriggerTime
  BY <1>4, <1>6, <1>7, <1>8 DEF ScansInTime
<1> QED
  BY <1>1, <1>4, <1>5, <1>9, ScansLocal

\* A scan that starts finds what the one before it left to it, and none of that is past.
LEMMA ScansSelect ==
  ASSUME Punctual, ThreadsInv, InTime, ScansInTime, ScanSelect
  PROVE  ScansInTime'
<1> TypeOK
  BY DEF ThreadsInv
<1>1. /\ scanPc = "sleep" /\ clock >= wake /\ nowTime' = clock /\ jobInfos' = picked'
      /\ mem' = row /\ row' = row /\ scanPc' = "jobs"
      /\ picked' = {j \in Jobs : row[j].st = "RUNNING" /\ row[j].next <= clock + PreRead}
  BY DEF ScanSelect
<1>2. clock \in Nat /\ wake \in Nat /\ clock <= wake + ScanLag
  BY <1>1 DEF TypeOK, InTime
<1>3. \A j \in Jobs : (InScan(j)' <=> j \in picked') /\ ~InScan(j) /\ ~Planned(j)'
  BY <1>1 DEF InScan, Planned
<1>4. ASSUME NEW j \in Jobs, row[j].st = "RUNNING"
      PROVE  FirstScan' \/ row[j].next > clock + ScanLag
  <2>1. CASE wake = Clock0
    BY <1>1, <1>2, <2>1 DEF FirstScan
  <2>2. CASE wake # Clock0
    <3>1. row[j].next + ScanSleep + ScanLag > wake + PreRead /\ row[j].next \in Nat
      BY <1>1, <1>3, <1>4, <2>2, FieldTypes DEF ScansInTime
    <3> QED
      BY <1>2, <3>1, Lags
  <2> QED
    BY <2>1, <2>2
<1>5. ASSUME NEW j \in Jobs, row[j].st = "RUNNING", j \notin picked'
      PROVE  row[j].next > clock + PreRead
  <2>1. row[j].next \in Nat
    BY FieldTypes
  <2> QED
    BY <1>1, <1>2, <1>5, <2>1
<1>6. maxTriggerTime' = clock + PreRead
  BY <1>1 DEF maxTriggerTime
<1> QED
  BY <1>1, <1>3, <1>4, <1>5, <1>6 DEF ScansInTime

\* The while loop goes on until a job's next time is beyond what the scan looks at.
LEMMA ScansWhile ==
  ASSUME Punctual, ThreadsInv, InTime, ScansInTime,
         ScanGetSet \/ ScanAdd \/ ScanNextJob \/ ScanUpdates
  PROVE  ScansInTime'
<1> TypeOK
  BY DEF ThreadsInv
<1>1. CASE ScanAdd
  <2> DEFINE info == Refreshed(mem[cur], mem[cur].next)
  <2>1. /\ scanPc = "add" /\ scanPc' = "while" /\ cur \in Jobs /\ mem[cur].st = "RUNNING"
        /\ InScan(cur)
    BY <1>1 DEF ScanAdd, TypeOK, ThreadsInv, ScanLocals, InScan
  <2>2. /\ mem'[cur] = info /\ \A k \in Jobs \ {cur} : mem'[k] = mem[k]
        /\ UNCHANGED <<row, nowTime, picked, jobInfos, cur>>
    BY <1>1 DEF ScanAdd, TypeOK
  <2>3. /\ mem[cur] \in Info /\ mem[cur].next \in Nat /\ nowTime \in Nat
        /\ info \in Info /\ (info.st = "RUNNING" => info.next > mem[cur].next)
    BY FieldTypes, RefreshedLater DEF TypeOK
  <2>4. info.next \in Nat
    BY <2>3 DEF Info
  <2> HIDE DEF info
  <2>5. info.st = "RUNNING" => FirstScan \/ info.next > nowTime + ScanLag
    <3>1. FirstScan \/ mem[cur].next > nowTime + ScanLag
      BY <2>1 DEF ScansInTime
    <3> QED
      BY <2>3, <2>4, <3>1, Lags
  <2>6. /\ \A k \in Jobs : InScan(k)' = InScan(k)
        /\ ~Planned(cur)' /\ \A k \in Jobs : Planned(k)' => Planned(k)
    BY <2>1, <2>2 DEF InScan, Planned
  <2>7. \A k \in Jobs : InScan(k) /\ mem'[k].st = "RUNNING" =>
          /\ FirstScan \/ mem'[k].next > nowTime + ScanLag
          /\ Planned(k)' => mem'[k].next > maxTriggerTime
    BY <2>2, <2>5, <2>6 DEF ScansInTime
  <2> QED
    BY <2>1, <2>2, <2>6, <2>7, ScansLocal
<1>2. CASE ScanGetSet \/ ScanNextJob \/ ScanUpdates
  <2>1. /\ UNCHANGED <<row, nowTime, picked, mem, cur>>
        /\ \/ UNCHANGED jobInfos /\ scanPc \in {"while"} /\ scanPc' \in {"jobs", "add"}
           \/ scanPc = "jobs" /\ scanPc' = "update" /\ jobInfos = {} /\ jobInfos' = picked
    BY <1>2 DEF ScanGetSet, ScanNextJob, ScanUpdates
  <2>2. \A k \in Jobs : InScan(k)' = InScan(k)
    BY <2>1 DEF InScan
  <2>3. ASSUME NEW k \in Jobs, mem[k].st = "RUNNING", Planned(k)'
        PROVE  Planned(k) \/ mem[k].next > maxTriggerTime
    <3>1. CASE ScanNextJob /\ k = cur
      <4>1. mem[cur].next > maxTriggerTime \/ mem[cur].next = 0
        BY <3>1 DEF ScanNextJob
      <4>2. mem[cur].next >= nowTime /\ nowTime >= Clock0
        BY <2>3, <3>1 DEF ScanNextJob, ThreadsInv, ScanLocals, InTime
      <4>3. mem[cur].next # 0
        BY <4>2, FieldTypes DEF TypeOK
      <4> QED
        BY <3>1, <4>1, <4>3
    <3>2. CASE ~(ScanNextJob /\ k = cur)
      BY <1>2, <2>1, <2>2, <2>3, <3>2 DEF Planned, ScanGetSet, ScanNextJob, ScanUpdates
    <3> QED
      BY <3>1, <3>2
  <2>4. \A k \in Jobs : InScan(k) /\ mem'[k].st = "RUNNING" =>
          /\ FirstScan \/ mem'[k].next > nowTime + ScanLag
          /\ Planned(k)' => mem'[k].next > maxTriggerTime
    BY <2>1, <2>3 DEF ScansInTime
  <2> QED
    BY <2>1, <2>2, <2>4, ScansLocal
<1> QED
  BY <1>1, <1>2

\* The second loop writes what the scan has planned far enough, and the next scan starts
\* before that is past.
LEMMA ScansUpdates ==
  ASSUME Punctual, ThreadsInv, InTime, ScansInTime, NEW j \in Jobs, ScanUpdate(j) \/ ScanRest
  PROVE  ScansInTime'
<1> TypeOK
  BY DEF ThreadsInv
<1>1. CASE ScanUpdate(j)
  <2>1. /\ scanPc = "update" /\ j \in jobInfos /\ jobInfos' = jobInfos \ {j}
        /\ UNCHANGED <<scanPc, nowTime, picked, mem, cur>>
        /\ \A k \in Jobs \ {j} : row'[k] = row[k]
        /\ \/ row'[j].st # "RUNNING"
           \/ row'[j].st = mem[j].st /\ row'[j].next = mem[j].next
    BY <1>1 DEF ScanUpdate, TypeOK, Info, Present
  <2>2. /\ InScan(j) /\ Planned(j) /\ ~InScan(j)'
        /\ \A k \in Jobs \ {j} : InScan(k)' = InScan(k)
        /\ \A k \in Jobs \ {j} : Planned(k)' = Planned(k)
    BY <2>1 DEF InScan, Planned
  <2>3. row'[j].st = "RUNNING" => row'[j].next > maxTriggerTime
    BY <2>1, <2>2 DEF ScansInTime
  <2>4. maxTriggerTime' = maxTriggerTime /\ FirstScan' = FirstScan
    BY <2>1 DEF maxTriggerTime, FirstScan
  <2> QED
    BY <2>1, <2>2, <2>3, <2>4 DEF ScansInTime
<1>2. CASE ScanRest
  <2>1. /\ scanPc = "update" /\ jobInfos = {} /\ row' = row
        /\ scanPc' = "sleep" /\ wake' = clock + ScanSleep
    BY <1>2 DEF ScanRest, ScanReturn, InTime
  <2>2. \A k \in Jobs : ~InScan(k) /\ ~InScan(k)'
    BY <2>1 DEF InScan
  <2>3. clock \in Nat /\ nowTime \in Nat /\ clock <= nowTime + ScanLag
    BY <2>1 DEF TypeOK, InTime
  <2>4. ASSUME NEW k \in Jobs, row[k].st = "RUNNING"
        PROVE  row[k].next + ScanSleep + ScanLag > wake' + PreRead
    <3>1. row[k].next > nowTime + PreRead /\ row[k].next \in Nat
      BY <2>1, <2>2, <2>4, FieldTypes DEF ScansInTime, maxTriggerTime
    <3> QED
      BY <2>1, <2>3, <3>1, Lags
  <2> QED
    BY <2>1, <2>2, <2>4 DEF ScansInTime
<1> QED
  BY <1>1, <1>2

\* TimelyInv holds when the first process starts ...
LEMMA TimelyInit == Punctual /\ Init => TimelyInv
<1> SUFFICES ASSUME Punctual, Init PROVE TimelyInv
  OBVIOUS
<1>1. InTime
  BY DEF Init, InTime
<1>2. InRing = {} /\ EntriesInTime
  BY DEF Init, InRing, EntriesInTime, OnTime
<1>3. ScansInTime
  BY DEF Init, ScansInTime, InScan
<1> QED
  BY <1>1, <1>2, <1>3 DEF TimelyInv

\* ... and no step of punctual threads leaves it.
LEMMA TimelyNext ==
  ASSUME Punctual, ThreadsInv, StartsAhead, TimelyInv, [Next]_vars
  PROVE  TimelyInv'
<1> TypeOK /\ InTime /\ EntriesInTime /\ ScansInTime
  BY DEF ThreadsInv, TimelyInv
<1>1. InTime'
  BY InTimeNext
<1>2. ~ScanException /\ ~TrigException /\ ~StopScan /\ ~Crash /\ ~StopTrigger /\ ~Restart
  BY Undisturbed DEF InTime, StopTrigger, Restart, Up
<1>3. CASE Tick
  <2>1. UNCHANGED <<row, scanVars>>
    BY <1>3 DEF Tick
  <2>2. ScansInTime'
    BY <2>1 DEF ScansInTime, InScan, Planned, FirstScan, maxTriggerTime, scanVars
  <2> QED
    BY <1>1, <1>3, <2>2, EntriesTick DEF TimelyInv
<1>4. CASE InfoService \/ EndOfModel \/ UNCHANGED vars
  <2>1. UNCHANGED <<clock, ring, scanVars, trigVars, pushed>>
    BY <1>4 DEF InfoService, StartRead, StartWrite, Stop, Delete, SaveOrUpdate, Copy,
                EndOfModel, vars, history
  <2>2. InRing' = InRing /\ ToTake' = ToTake /\ jobIds' = jobIds
    BY <2>1 DEF InRing, ToTake, trigVars
  <2>3. EntriesInTime'
    BY <2>1, <2>2, EntriesFewer
  <2>4. ScansInTime'
    <3>1. CASE InfoService
      BY <3>1, ScansInfoService
    <3>2. CASE EndOfModel \/ UNCHANGED vars
      <4>1. UNCHANGED <<row, scanVars>>
        BY <3>2 DEF EndOfModel, vars
      <4> QED
        BY <4>1 DEF ScansInTime, InScan, Planned, FirstScan, maxTriggerTime, scanVars
    <3> QED
      BY <1>4, <3>1, <3>2
  <2> QED
    BY <1>1, <2>3, <2>4 DEF TimelyInv
<1>5. CASE ScanStep
  <2>1. ScansInTime'
    BY <1>5, ScansSelect, ScansLoopBody, ScansWhile, ScansUpdates DEF ScanStep
  <2> QED
    BY <1>1, <1>5, <2>1, EntriesScan DEF TimelyInv
<1>6. CASE TrigStep
  <2>1. UNCHANGED <<row, scanPc, wake, nowTime, jobInfos, picked, mem, cur>>
    BY <1>6 DEF TrigStep, TrigRead, TakePrevious, TakeCurrent, TrigRest, TrigPush, TrigReturn,
                trigKeeps
  <2>2. ScansInTime'
    BY <2>1 DEF ScansInTime, InScan, Planned, FirstScan, maxTriggerTime
  <2> QED
    BY <1>1, <1>6, <2>2, EntriesTrig DEF TimelyInv
<1> QED
  BY <1>2, <1>3, <1>4, <1>5, <1>6 DEF Next

\* What the ring holds has not passed, and a scan comes before what the last one planned
\* has: the scan and the trigger thread keep in step.
THEOREM ScansKeepAhead ==
  ASSUME Punctual
  PROVE  Spec => []TimelyInv
<1>1. StartLag = 0 /\ ~MayCrash /\ TrigLag + PreRead + 1 < Period
  BY Lags DEF Punctual
<1>2. Spec => []OnceInv /\ []EarlyInv
  BY <1>1, PlansLieAhead, NothingBeyondTheTurn, PTL
<1>3. Init => TimelyInv
  BY TimelyInit
<1>4. TimelyInv /\ OnceInv /\ EarlyInv /\ [Next]_vars => TimelyInv'
  <2> SUFFICES ASSUME TimelyInv, OnceInv, EarlyInv, [Next]_vars PROVE TimelyInv'
    OBVIOUS
  <2>1. Inv
    BY DEF OnceInv, TimelyInv, InTime
  <2>2. ThreadsInv /\ StartsAhead
    BY <2>1 DEF Inv
  <2> QED
    BY <2>2, TimelyNext
<1> QED
  BY <1>2, <1>3, <1>4, PTL DEF Spec

\* No push is late: whatever InfoService does, an occurrence that was due after the first
\* scan had looked ahead is handed to the trigger pool in its own second.
THEOREM PushedOnTime ==
  ASSUME Punctual
  PROVE  Spec => []OnTime
<1>1. TimelyInv => OnTime
  BY DEF TimelyInv, EntriesInTime
<1> QED
  BY <1>1, ScansKeepAhead, PTL

-----------------------------------------------------------------------------
(* Nothing is left out *)

\* A nonempty set of seconds has a first.
LEMMA FirstSecond ==
  ASSUME NEW S \in SUBSET Nat, S # {}
  PROVE  \E m \in S : \A n \in S : m <= n
<1>1. IsWellFoundedOn(OpToRel(<, Nat), Nat)
  BY NatLessThanWellFounded
<1>2. PICK m \in S : \A n \in S : ~(<<n, m>> \in OpToRel(<, Nat))
  BY <1>1, WFMin
<1>3. \A n \in S : n < m => <<n, m>> \in OpToRel(<, Nat)
  BY DEF OpToRel
<1>4. \A n \in S : ~(n < m)
  BY <1>2, <1>3, Zenon
<1>5. \A n \in S : n \in Nat /\ m \in Nat
  OBVIOUS
<1> QED
  BY <1>4, <1>5

\* getNextValidTimeAfter skips no match.
LEMMA NextIsLeast ==
  ASSUME NEW c \in Crons, NEW t \in Nat, NEW o \in Occ[c], o > t
  PROVE  NextValidTimeAfter(c, t) # 0 /\ NextValidTimeAfter(c, t) <= o
<1> DEFINE later == {p \in Occ[c] : p > t}
           first == {p \in later : \A q \in later : p <= q}
<1>1. later \in SUBSET Nat /\ o \in later
  OBVIOUS
<1>2. first # {}
  BY <1>1, FirstSecond
<1>3. NextValidTimeAfter(c, t) = CHOOSE p \in first : TRUE
  BY <1>2 DEF NextValidTimeAfter
<1>4. NextValidTimeAfter(c, t) \in first
  BY <1>2, <1>3
<1> HIDE DEF later
<1>5. NextValidTimeAfter(c, t) \in later /\ NextValidTimeAfter(c, t) <= o
  BY <1>1, <1>4
<1> QED
  BY <1>5 DEF later

\* refreshNextValidTime goes no further than to the next match.
LEMMA RefreshedLeast ==
  ASSUME NEW info \in Info, NEW t \in Nat
  PROVE  /\ Refreshed(info, t).st \in {"RUNNING", "STOPPED"}
         /\ \A o \in Occ[info.cron] : o > t =>
              Refreshed(info, t).st = "RUNNING" /\ Refreshed(info, t).next <= o
<1> DEFINE n == NextValidTimeAfter(info.cron, t)
<1>1. info.cron \in Crons /\ info.st \in Status /\ info.next \in Nat /\ info.last \in Nat
  BY DEF Info
<1>2. \A o \in Occ[info.cron] : o > t => n # 0 /\ n <= o
  BY <1>1, NextIsLeast
<1>3. \/ n # 0 /\ Refreshed(info, t).st = "RUNNING" /\ Refreshed(info, t).next = n
      \/ n = 0 /\ Refreshed(info, t).st = "STOPPED"
  BY <1>1 DEF Refreshed, Info, Status
<1> HIDE DEF n
<1> QED
  BY <1>2, <1>3

\* With one expression a row and a scan's copy of it have the same occurrences.
LEMMA OneExpression ==
  ASSUME \A c, d \in Crons : c = d, TypeOK
  PROVE  /\ \A j \in Jobs : Occ[mem[j].cron] = Occ[row[j].cron]
         /\ TypeOK' => \A j \in Jobs : Occ[row[j].cron]' = Occ[row[j].cron]
<1>1. \A j \in Jobs : mem[j].cron \in Crons /\ row[j].cron \in Crons
  BY FieldTypes
<1>2. TypeOK' => \A j \in Jobs : row'[j].cron \in Crons
  BY DEF TypeOK, Info
<1> QED
  BY <1>1, <1>2

\* In the beginning each running row stands at or before the first occurrence it owes.
LEMMA SkipInit == Init => SkipInv
<1> SUFFICES ASSUME Init PROVE SkipInv
  OBVIOUS
<1> TypeOK
  BY InitType
<1>1. \A j \in Jobs : ~InScan(j)
  BY DEF Init, InScan
<1>2. ASSUME NEW j \in Jobs, since[j] # 0
      PROVE  row[j].st = "RUNNING" /\ since[j] > Clock0 + PreRead /\ row[j].next <= since[j]
  <2>1. row[j].next \in Nat
    BY FieldTypes
  <2>2. since[j] = CASE row[j].st # "RUNNING" -> 0
                     [] row[j].next > Clock0 + PreRead -> row[j].next
                     [] OTHER -> Clock0 + PreRead + 1
    BY DEF Init
  <2>3. CASE row[j].st # "RUNNING"
    <3>1. row[j].next = 0
      BY <2>3 DEF Init, InitRow
    <3>2. ~(row[j].next > Clock0 + PreRead)
      BY <3>1
    <3> QED
      BY <1>2, <2>2, <2>3, <3>2
  <2>4. CASE row[j].st = "RUNNING" /\ row[j].next > Clock0 + PreRead
    BY <2>1, <2>2, <2>4
  <2>5. CASE row[j].st = "RUNNING" /\ ~(row[j].next > Clock0 + PreRead)
    <3>1. since[j] = Clock0 + PreRead + 1
      BY <2>2, <2>5
    <3> QED
      BY <2>1, <2>5, <3>1
  <2> QED
    BY <2>3, <2>4, <2>5
<1>3. OwedByPresent
  BY <1>2 DEF OwedByPresent, Present, Due
<1>4. CopiesReach
  BY <1>1 DEF CopiesReach
<1>5. NoneLeftOut
  <2> SUFFICES ASSUME NEW j \in Jobs, NEW o \in Occ[row[j].cron], Owes(j, o)
               PROVE  MayPlan(j, o)
    BY DEF NoneLeftOut
  <2>1. row[j].st = "RUNNING" /\ row[j].next <= since[j] /\ since[j] <= o
    BY <1>2 DEF Owes
  <2>2. row[j].next \in Nat /\ since[j] \in Nat /\ o \in Nat
    BY FieldTypes DEF TypeOK
  <2> QED
    BY <1>1, <2>1, <2>2 DEF MayPlan
<1> QED
  BY <1>3, <1>4, <1>5 DEF SkipInv

\* Owed occurrences are seconds, and due.
LEMMA OwedAreDue ==
  ASSUME TypeOK, SkipInv, NEW j \in Jobs, NEW o \in Occ[row[j].cron], Owes(j, o)
  PROVE  o \in Nat /\ Due(o) /\ Present(j)
<1>1. row[j].cron \in Crons /\ since[j] \in Nat
  BY FieldTypes DEF TypeOK
<1>2. o \in Nat /\ since[j] <= o /\ since[j] > Clock0 + PreRead /\ Present(j)
  BY <1>1 DEF Owes, SkipInv, OwedByPresent, Due
<1> QED
  BY <1>1, <1>2 DEF Due

\* A step that leaves the rows and the scan's copies alone, and loses no owed occurrence.
LEMMA SkipSame ==
  ASSUME SkipInv, UNCHANGED <<row, since, mem, nowTime>>,
         \A j \in Jobs : InScan(j)' = InScan(j),
         \A j \in Jobs : \A o \in Occ[row[j].cron] :
           Owes(j, o) /\ IsPlanned(j, o) => IsPlanned(j, o)'
  PROVE  SkipInv'
<1>1. OwedByPresent'
  BY DEF SkipInv, OwedByPresent, Present, Due
<1>2. CopiesReach'
  BY DEF SkipInv, CopiesReach, maxTriggerTime
<1>3. NoneLeftOut'
  BY DEF SkipInv, NoneLeftOut, Owes, MayPlan
<1> QED
  BY <1>1, <1>2, <1>3 DEF SkipInv

\* The ring and the thread's hands hold at least what they held.
LEMMA PlannedStays ==
  ASSUME UNCHANGED pushed, InRing \cup jobIds \subseteq InRing' \cup jobIds'
  PROVE  \A j \in Jobs : \A o : IsPlanned(j, o) => IsPlanned(j, o)'
<1>1. \A j : PushedOccs(j)' = PushedOccs(j)
  BY DEF PushedOccs
<1> QED
  BY <1>1 DEF IsPlanned

\* InfoService: a started job owes from the occurrence that start has written, which the scan
\* under way, if its list has the job, does not look at.
LEMMA SkipInfoService ==
  ASSUME \A c, d \in Crons : c = d, ThreadsInv, ThreadsInv', StartsAhead, Clock0 <= clock,
         SkipInv, InfoService
  PROVE  SkipInv'
<1> TypeOK /\ TypeOK'
  BY DEF ThreadsInv
<1>1. UNCHANGED <<clock, ring, scanVars, trigVars, pushed>>
  BY DEF InfoService, StartRead, StartWrite, Stop, Delete, SaveOrUpdate, Copy, history
<1>2. /\ \A k \in Jobs : InScan(k)' = InScan(k)
      /\ UNCHANGED <<mem, nowTime>> /\ maxTriggerTime' = maxTriggerTime
      /\ \A k \in Jobs : Occ[row[k].cron]' = Occ[row[k].cron]
      /\ \A k \in Jobs : \A o : IsPlanned(k, o)' = IsPlanned(k, o)
  <2>1. UNCHANGED <<ring, jobIds, pushed, scanPc, nowTime, jobInfos, picked, mem>>
    BY <1>1 DEF scanVars, trigVars
  <2>2. \A k : PushedOccs(k)' = PushedOccs(k)
    BY <2>1 DEF PushedOccs
  <2> QED
    BY <2>1, <2>2, OneExpression DEF InScan, maxTriggerTime, IsPlanned, InRing
<1>3. CopiesReach'
  BY <1>2 DEF SkipInv, CopiesReach
<1>4. ASSUME NEW k \in Jobs
      PROVE  \/ since'[k] = 0
             \/ since'[k] = since[k] /\ row'[k] = row[k]
             \/ /\ row'[k].st = "RUNNING" /\ row'[k].next = since'[k]
                /\ since'[k] > clock + StartDelay
  <2>1. PICK j \in Jobs : \/ StartRead(j) \/ StartWrite(j) \/ Stop(j) \/ Delete(j)
                          \/ \E c \in Crons : SaveOrUpdate(j, c)
                          \/ \E i \in Jobs : Copy(j, i)
    BY DEF InfoService
  <2>2. row \in [Jobs -> Info] /\ row[j] \in Info /\ since \in [Jobs -> Nat]
    BY DEF TypeOK
  <2>3. CASE StartRead(j)
    BY <2>3 DEF StartRead, history
  <2>4. CASE StartWrite(j)
    <3>1. starting[j].next > clock + StartDelay
      BY <2>4 DEF StartWrite, StartsAhead
    <3>2. CASE k = j /\ Present(j)
      BY <2>2, <2>4, <3>1, <3>2 DEF StartWrite, Info
    <3>3. CASE ~(k = j /\ Present(j))
      BY <2>2, <2>4, <3>3 DEF StartWrite
    <3> QED
      BY <3>2, <3>3
  <2>5. CASE Stop(j)
    BY <2>2, <2>5 DEF Stop
  <2>6. CASE Delete(j)
    BY <2>2, <2>6 DEF Delete
  <2>7. CASE \E c \in Crons : SaveOrUpdate(j, c)
    BY <2>2, <2>7 DEF SaveOrUpdate
  <2>8. ASSUME NEW i \in Jobs, Copy(j, i)
        PROVE  since'[k] = 0 \/ (since'[k] = since[k] /\ row'[k] = row[k])
    <3>1. since[i] = 0
      BY <2>8 DEF Copy, SkipInv, OwedByPresent, Present
    <3> QED
      BY <2>2, <2>8, <3>1 DEF Copy, history
  <2> QED
    BY <2>1, <2>3, <2>4, <2>5, <2>6, <2>7, <2>8
<1>5. clock \in Nat /\ nowTime \in Nat /\ nowTime <= clock
  BY DEF TypeOK, ThreadsInv, ScanLocals
<1>6. \A k \in Jobs : since'[k] \in Nat /\ row'[k].next \in Nat
  BY FieldTypes DEF TypeOK, Info
<1>7. \A k \in Jobs : since'[k] > clock + StartDelay =>
        since'[k] > Clock0 + PreRead /\ since'[k] > maxTriggerTime
  BY <1>5, <1>6 DEF maxTriggerTime
<1>8. OwedByPresent'
  BY <1>4, <1>7 DEF SkipInv, OwedByPresent, Present, Due
<1>9. NoneLeftOut'
  <2> SUFFICES ASSUME NEW k \in Jobs, NEW o \in Occ[row[k].cron], Owes(k, o)'
               PROVE  IsPlanned(k, o) \/ MayPlan(k, o)'
    BY <1>2 DEF NoneLeftOut
  <2>1. o \in Nat /\ since'[k] # 0 /\ since'[k] <= o
    BY FieldTypes DEF Owes
  <2>2. CASE since'[k] = since[k] /\ row'[k] = row[k]
    <3>1. Owes(k, o) /\ MayPlan(k, o)' = MayPlan(k, o)
      BY <1>2, <2>1, <2>2 DEF Owes, MayPlan
    <3> QED
      BY <3>1 DEF SkipInv, NoneLeftOut
  <2>3. CASE /\ row'[k].st = "RUNNING" /\ row'[k].next = since'[k]
             /\ since'[k] > clock + StartDelay
    <3>1. CASE InScan(k)
      <4>1. o > maxTriggerTime
        BY <1>5, <1>6, <1>7, <2>1, <2>3 DEF maxTriggerTime
      <4> QED
        BY <1>2, <3>1, <4>1 DEF SkipInv, CopiesReach, MayPlan
    <3>2. CASE ~InScan(k)
      BY <1>2, <2>1, <2>3, <3>2 DEF MayPlan
    <3> QED
      BY <3>1, <3>2
  <2> QED
    BY <1>4, <2>1, <2>2, <2>3
<1> QED
  BY <1>3, <1>8, <1>9 DEF SkipInv

\* A scan starts with copies of the rows.
LEMMA SkipSelect ==
  ASSUME ThreadsInv, SkipInv, ScanSelect
  PROVE  SkipInv'
<1> TypeOK
  BY DEF ThreadsInv
<1>1. /\ scanPc = "sleep" /\ nowTime' = clock /\ jobInfos' = picked'
      /\ mem' = row /\ scanPc' = "jobs" /\ UNCHANGED <<row, since, ring, jobIds, pushed>>
      /\ picked' = {j \in Jobs : row[j].st = "RUNNING" /\ row[j].next <= clock + PreRead}
  BY DEF ScanSelect, scanKeeps
<1>2. \A j \in Jobs : (InScan(j)' <=> j \in picked') /\ ~InScan(j)
  BY <1>1 DEF InScan
<1>3. OwedByPresent'
  BY <1>1 DEF SkipInv, OwedByPresent, Present, Due
<1>4. CopiesReach'
  <2> SUFFICES ASSUME NEW j \in Jobs, InScan(j)', NEW o \in Occ[row[j].cron],
                      o > maxTriggerTime'
               PROVE  row[j].next <= o
    BY <1>1, <1>2 DEF CopiesReach
  <2>1. row[j].next <= clock + PreRead /\ o > clock + PreRead
    BY <1>1, <1>2 DEF maxTriggerTime
  <2> QED
    BY <2>1, FieldTypes
<1>5. NoneLeftOut'
  <2>1. \A j : PushedOccs(j)' = PushedOccs(j)
    BY <1>1 DEF PushedOccs
  <2> QED
    BY <1>1, <1>2, <2>1 DEF SkipInv, NoneLeftOut, Owes, IsPlanned, InRing, MayPlan
<1> QED
  BY <1>3, <1>4, <1>5 DEF SkipInv

\* A step that moves the scan's copy of one job on, over occurrences that are planned or not due.
LEMMA SkipMoveOn ==
  ASSUME \A c, d \in Crons : c = d, ThreadsInv, SkipInv, NEW j \in Jobs, InScan(j),
         NEW t \in Nat, t <= maxTriggerTime,
         UNCHANGED <<row, since, nowTime>>,
         mem' = [mem EXCEPT ![j] = Refreshed(mem[j], t)],
         \A k \in Jobs : InScan(k)' = InScan(k),
         \A k \in Jobs : \A o \in Occ[row[k].cron] :
           Owes(k, o) /\ IsPlanned(k, o) => IsPlanned(k, o)',
         \A o \in Occ[row[j].cron] :
           Owes(j, o) /\ mem[j].next <= o => o > t \/ IsPlanned(j, o)'
  PROVE  SkipInv'
<1> TypeOK
  BY DEF ThreadsInv
<1> DEFINE info == Refreshed(mem[j], t)
<1>1. mem'[j] = info /\ \A k \in Jobs \ {j} : mem'[k] = mem[k]
  BY DEF TypeOK
<1>2. /\ info.st \in {"RUNNING", "STOPPED"}
      /\ \A o \in Occ[row[j].cron] : o > t => info.st = "RUNNING" /\ info.next <= o
  <2>1. mem[j] \in Info /\ Occ[mem[j].cron] = Occ[row[j].cron]
    BY OneExpression DEF TypeOK
  <2> QED
    BY <2>1, RefreshedLeast
<1> HIDE DEF info
<1>3. \A o \in Occ[row[j].cron] : o > maxTriggerTime => o > t
  <2>1. \A o \in Occ[row[j].cron] : o \in Nat
    BY FieldTypes
  <2>2. maxTriggerTime \in Nat
    BY FieldTypes DEF maxTriggerTime
  <2> QED
    BY <2>1, <2>2
<1>4. OwedByPresent'
  BY DEF SkipInv, OwedByPresent, Present, Due
<1>5. CopiesReach'
  BY <1>1, <1>2, <1>3 DEF SkipInv, CopiesReach, maxTriggerTime
<1>6. NoneLeftOut'
  <2> SUFFICES ASSUME NEW k \in Jobs, NEW o \in Occ[row[k].cron], Owes(k, o)
               PROVE  IsPlanned(k, o)' \/ MayPlan(k, o)'
    BY DEF NoneLeftOut, Owes
  <2>1. CASE IsPlanned(k, o)
    BY <2>1
  <2>2. CASE MayPlan(k, o) /\ k # j
    BY <1>1, <2>2 DEF MayPlan
  <2>3. CASE MayPlan(k, o) /\ k = j
    <3>1. mem[j].next <= o
      BY <2>3 DEF MayPlan
    <3>2. o > t \/ IsPlanned(j, o)'
      BY <2>3, <3>1
    <3> QED
      BY <1>1, <1>2, <2>3, <3>2 DEF MayPlan
  <2> QED
    BY <2>1, <2>2, <2>3 DEF SkipInv, NoneLeftOut
<1> QED
  BY <1>4, <1>5, <1>6 DEF SkipInv

\* The loop's body pushes the occurrence it moves on from, or passes over what is not due:
\* only the first scan finds rows whose time has passed.
LEMMA SkipLoopBody ==
  ASSUME Punctual, \A c, d \in Crons : c = d, ThreadsInv, InTime, ScansInTime, SkipInv,
         NEW j \in Jobs, ScanMissed(j) \/ ScanDueNow(j) \/ ScanLater(j)
  PROVE  SkipInv'
<1> TypeOK
  BY DEF ThreadsInv
<1>1. j \in jobInfos /\ scanPc = "jobs"
  BY DEF ScanMissed, ScanDueNow, ScanLater
<1>2. /\ mem[j].st = "RUNNING" /\ mem[j].next \in Nat /\ InScan(j)
      /\ mem[j].next <= maxTriggerTime
  BY <1>1, ThreadsLoopBody DEF maxTriggerTime
<1>3. PICK info : LoopBody(j, info) /\ \/ ScanMissed(j) /\ info = Refreshed(mem[j], clock)
                                       \/ ScanDueNow(j) /\ info = Refreshed(mem[j], mem[j].next)
                                       \/ ScanLater(j) /\ info = mem[j]
  BY <1>1, ThreadsLoopBody
<1>4. /\ scanPc' = "while" /\ mem' = [mem EXCEPT ![j] = info]
      /\ UNCHANGED <<row, since, nowTime, picked, ring, jobIds>>
  BY <1>3 DEF LoopBody, scanKeeps
<1>5. \A k \in Jobs : InScan(k)' = InScan(k)
  BY <1>1, <1>4 DEF InScan
<1>6. \A o \in Occ[row[j].cron] : o \in Nat
  BY FieldTypes
<1>7. CASE ScanMissed(j) /\ info = Refreshed(mem[j], clock)
  <2>1. UNCHANGED pushed /\ mem[j].next < nowTime
    BY <1>7 DEF ScanMissed
  <2>2. \A k \in Jobs : \A o : IsPlanned(k, o) => IsPlanned(k, o)'
    <3>1. InRing' = InRing
      BY <1>4 DEF InRing
    <3> QED
      BY <1>4, <2>1, <3>1, PlannedStays
  <2>3. clock \in Nat /\ clock <= maxTriggerTime
    <3>1. clock <= nowTime + ScanLag /\ clock \in Nat /\ nowTime \in Nat
      BY <1>1 DEF InTime, TypeOK
    <3> QED
      BY <3>1, Lags DEF maxTriggerTime
  <2>4. FirstScan
    <3>1. FirstScan \/ mem[j].next > nowTime + ScanLag
      BY <1>2 DEF ScansInTime
    <3>2. nowTime \in Nat /\ ScanLag \in Nat
      BY DEF TypeOK
    <3> QED
      BY <1>2, <2>1, <3>1, <3>2
  <2>5. \A o \in Occ[row[j].cron] : Owes(j, o) => o > clock
    BY <1>1, <1>6, <2>4, OwedAreDue, FirstScanBeforeDue
  <2> QED
    BY <1>2, <1>4, <1>5, <1>7, <2>2, <2>3, <2>5, SkipMoveOn
<1>8. CASE ScanDueNow(j) /\ info = Refreshed(mem[j], mem[j].next)
  <2>1. Push(j, {mem[j].next})
    BY <1>8 DEF ScanDueNow
  <2>2. /\ PushedOccs(j)' = PushedOccs(j) \cup {mem[j].next}
        /\ \A k \in Jobs \ {j} : PushedOccs(k)' = PushedOccs(k)
    BY <1>2, <2>1, PushRecord
  <2>3. /\ \A k \in Jobs : \A o : IsPlanned(k, o) => IsPlanned(k, o)'
        /\ mem[j].next \in PushedOccs(j)'
    BY <1>4, <2>2 DEF IsPlanned, InRing
  <2>4. \A o \in Occ[row[j].cron] : mem[j].next <= o => o > mem[j].next \/ IsPlanned(j, o)'
    <3> SUFFICES ASSUME NEW o \in Occ[row[j].cron], mem[j].next <= o, ~(o > mem[j].next)
                 PROVE  IsPlanned(j, o)'
      OBVIOUS
    <3>1. o = mem[j].next
      BY <1>2, <1>6
    <3> QED
      BY <2>3, <3>1 DEF IsPlanned
  <2> QED
    BY <1>2, <1>4, <1>5, <1>8, <2>3, <2>4, SkipMoveOn
<1>9. CASE ScanLater(j) /\ info = mem[j]
  <2>1. mem' = mem /\ UNCHANGED pushed
    BY <1>4, <1>9 DEF ScanLater, TypeOK
  <2>2. \A k \in Jobs : \A o : IsPlanned(k, o) => IsPlanned(k, o)'
    <3>1. InRing' = InRing
      BY <1>4 DEF InRing
    <3> QED
      BY <1>4, <2>1, <3>1, PlannedStays
  <2> QED
    BY <1>4, <1>5, <2>1, <2>2, SkipSame
<1> QED
  BY <1>3, <1>7, <1>8, <1>9

\* The add puts into the ring what it moves on from; a set that the trigger thread has taken
\* in between is that of a second that has come, and such a second is due to nobody.
LEMMA SkipAdd ==
  ASSUME Punctual, \A c, d \in Crons : c = d, EarlyInv, InTime, ScansInTime, SkipInv, ScanAdd
  PROVE  SkipInv'
<1> ThreadsInv /\ TypeOK
  BY DEF EarlyInv, ThreadsInv
<1> PICK j \in Jobs : j = cur
  BY DEF TypeOK
<1> DEFINE t == mem[j].next
           e == <<j, t>>
<1>1. /\ scanPc = "add" /\ scanPc' = "while" /\ held # "none"
      /\ UNCHANGED <<clock, row, since, nowTime, picked, cur, pushed>>
      /\ mem' = [mem EXCEPT ![j] = Refreshed(mem[j], t)]
  BY DEF ScanAdd, ThreadsInv, ScanLocals, history
<1>2. /\ InScan(j) /\ mem[j].st = "RUNNING" /\ t <= maxTriggerTime
      /\ t \in Nat /\ Slot(t) \in 0..Period-1 /\ clock \in Nat
  BY <1>1, FieldTypes, SlotType DEF TypeOK, ThreadsInv, ScanLocals, InScan
<1>3. \A k \in Jobs : InScan(k)' = InScan(k)
  BY <1>1 DEF InScan
<1>4. t <= clock => ~Due(t)
  <2>1. t <= t
    BY <1>2
  <2>2. Due(t) => t > clock
    BY <1>2, <2>1, CopyAhead
  <2> QED
    BY <1>2, <2>2
<1>5. held \in {"iterated", "lost"} => t <= clock
  BY DEF EarlyInv, Come
<1>6. \/ ring' = ring
      \/ held = "ring" /\ ring' = [ring EXCEPT ![Slot(t)] = @ \cup {e}]
  BY DEF ScanAdd
<1>7. InRing \subseteq InRing' /\ (held = "ring" => e \in InRing')
  <2>1. held = "ring" => ring' = [ring EXCEPT ![Slot(t)] = @ \cup {e}]
    BY DEF ScanAdd
  <2> HIDE DEF t, e
  <2>2. \A s \in 0..Period-1 : ring[s] \subseteq ring'[s]
    BY <1>2, <1>6 DEF TypeOK
  <2>3. held = "ring" => e \in ring'[Slot(t)]
    BY <1>2, <2>1 DEF TypeOK
  <2> QED
    BY <1>2, <2>2, <2>3 DEF InRing
<1>8. \/ jobIds \subseteq jobIds'
      \/ held = "iterated" /\ \A x \in jobIds : ~Due(x[2])
  <2>1. jobIds \subseteq jobIds' \/ held = "iterated"
    BY DEF ScanAdd
  <2>2. ASSUME held = "iterated", NEW x \in jobIds PROVE ~Due(x[2])
    <3>1. x[2] \in Nat /\ x[2] <= clock /\ t <= clock
      BY <1>5, <2>2, EntryTypes DEF EarlyInv, Come
    <3>2. FirstScan
      <4>1. FirstScan \/ t > nowTime + ScanLag
        BY <1>2 DEF ScansInTime
      <4>2. clock <= nowTime + ScanLag /\ nowTime \in Nat /\ ScanLag \in Nat
        BY <1>1 DEF InTime, TypeOK
      <4> QED
        BY <1>2, <3>1, <4>1, <4>2
    <3>3. Due(x[2]) => x[2] > clock
      BY <1>1, <3>1, <3>2, FirstScanBeforeDue
    <3> QED
      BY <1>2, <3>1, <3>3
  <2> QED
    BY <2>1, <2>2
<1>9. \A k \in Jobs : PushedOccs(k)' = PushedOccs(k)
  BY <1>1 DEF PushedOccs
<1>10. \A k \in Jobs : \A o \in Occ[row[k].cron] :
         Owes(k, o) /\ IsPlanned(k, o) => IsPlanned(k, o)'
  <2> SUFFICES ASSUME NEW k \in Jobs, NEW o \in Occ[row[k].cron], Owes(k, o), IsPlanned(k, o)
               PROVE  IsPlanned(k, o)'
    OBVIOUS
  <2>1. Due(o) /\ <<k, o>>[2] = o
    BY OwedAreDue
  <2>2. <<k, o>> \in jobIds => <<k, o>> \in jobIds'
    BY <1>8, <2>1
  <2> QED
    BY <1>7, <1>9, <2>2 DEF IsPlanned
<1>11. ASSUME NEW o \in Occ[row[j].cron], Owes(j, o), t <= o
       PROVE  o > t \/ IsPlanned(j, o)'
  <2>1. o \in Nat /\ Due(o)
    BY <1>2, <1>11, OwedAreDue
  <2>2. CASE o = t
    <3>1. held = "ring"
      BY <1>1, <1>4, <1>5, <2>1, <2>2 DEF TypeOK
    <3> QED
      BY <1>7, <2>2, <3>1 DEF IsPlanned
  <2> QED
    BY <1>2, <1>11, <2>1, <2>2
<1> QED
  BY <1>1, <1>2, <1>3, <1>10, <1>11, SkipMoveOn

\* The scan's other moves; the second loop writes the copies into the rows.
LEMMA SkipMoves ==
  ASSUME \A c, d \in Crons : c = d, ThreadsInv, ThreadsInv', SkipInv, NEW j \in Jobs,
         ScanGetSet \/ ScanNextJob \/ ScanUpdates \/ ScanUpdate(j) \/ ScanRest
  PROVE  SkipInv'
<1> TypeOK /\ TypeOK'
  BY DEF ThreadsInv
<1>1. UNCHANGED <<ring, jobIds, pushed, since>>
  BY DEF ScanGetSet, ScanNextJob, ScanUpdates, ScanUpdate, ScanRest, ScanReturn, scanKeeps
<1>2. \A k \in Jobs : \A o : IsPlanned(k, o)' = IsPlanned(k, o)
  <2>1. \A k : PushedOccs(k)' = PushedOccs(k)
    BY <1>1 DEF PushedOccs
  <2> QED
    BY <1>1, <2>1 DEF IsPlanned, InRing
<1>3. CASE ScanGetSet \/ ScanNextJob \/ ScanUpdates
  <2>1. /\ UNCHANGED <<row, nowTime, picked, mem, cur>>
        /\ \/ UNCHANGED jobInfos /\ scanPc \in {"while"} /\ scanPc' \in {"jobs", "add"}
           \/ scanPc = "jobs" /\ scanPc' = "update" /\ jobInfos = {} /\ jobInfos' = picked
    BY <1>3 DEF ScanGetSet, ScanNextJob, ScanUpdates
  <2>2. \A k \in Jobs : InScan(k)' = InScan(k)
    BY <2>1 DEF InScan
  <2> QED
    BY <1>1, <1>2, <2>1, <2>2, SkipSame
<1>4. CASE ScanRest
  <2>1. /\ scanPc = "update" /\ jobInfos = {} /\ row' = row /\ scanPc' \in {"sleep", "end"}
    BY <1>4 DEF ScanRest, ScanReturn
  <2>2. \A k \in Jobs : ~InScan(k) /\ ~InScan(k)'
    BY <2>1 DEF InScan
  <2> QED
    BY <1>1, <1>2, <2>1, <2>2
    DEF SkipInv, OwedByPresent, CopiesReach, NoneLeftOut, Owes, MayPlan, Present, Due
<1>5. CASE ScanUpdate(j)
  <2>1. /\ scanPc = "update" /\ j \in jobInfos /\ jobInfos' = jobInfos \ {j}
        /\ UNCHANGED <<scanPc, nowTime, picked, mem>>
        /\ \A k \in Jobs \ {j} : row'[k] = row[k]
        /\ ~Present(j) => row'[j] = row[j]
        /\ Present(j) => row'[j].st = mem[j].st /\ row'[j].next = mem[j].next
    BY <1>5 DEF ScanUpdate, scanKeeps, TypeOK, Info
  <2>2. /\ InScan(j) /\ ~InScan(j)'
        /\ \A k \in Jobs \ {j} : InScan(k)' = InScan(k)
        /\ \A k \in Jobs : Occ[row[k].cron]' = Occ[row[k].cron]
    BY <2>1, OneExpression DEF InScan
  <2>3. OwedByPresent'
    BY <1>1, <2>1, <2>2 DEF SkipInv, OwedByPresent, CopiesReach, Present, Due
  <2>4. CopiesReach'
    BY <2>1, <2>2 DEF SkipInv, CopiesReach, maxTriggerTime
  <2>5. NoneLeftOut'
    <3> SUFFICES ASSUME NEW k \in Jobs, NEW o \in Occ[row[k].cron], Owes(k, o)'
                 PROVE  IsPlanned(k, o) \/ MayPlan(k, o)'
      BY <1>2, <2>2 DEF NoneLeftOut
    <3>1. Owes(k, o)
      BY <1>1 DEF Owes
    <3>2. Present(k)
      BY <3>1, OwedAreDue
    <3>3. MayPlan(k, o) => MayPlan(k, o)'
      BY <2>1, <2>2, <3>2 DEF MayPlan
    <3> QED
      BY <3>1, <3>3 DEF SkipInv, NoneLeftOut
  <2> QED
    BY <2>3, <2>4, <2>5 DEF SkipInv
<1> QED
  BY <1>3, <1>4, <1>5

\* The trigger thread takes what it pushes, and drops nothing.
LEMMA SkipTrig ==
  ASSUME ThreadsInv, InTime, SkipInv, TrigStep
  PROVE  SkipInv'
<1> TypeOK
  BY DEF ThreadsInv
<1>1. UNCHANGED <<row, since, mem, nowTime, scanPc, picked, jobInfos>>
  BY DEF TrigStep, TrigRead, TakePrevious, TakeCurrent, TrigRest, TrigPush, TrigReturn,
         trigKeeps, history
<1>2. \A k \in Jobs : InScan(k)' = InScan(k)
  BY <1>1 DEF InScan
<1>3. \A k \in Jobs : \A o : IsPlanned(k, o) => IsPlanned(k, o)'
  <2>1. CASE TrigRead \/ TrigRest
    <3>1. UNCHANGED <<ring, pushed>> /\ (jobIds' = jobIds \/ jobIds = {})
      BY <2>1 DEF TrigRead, TrigRest, TrigReturn, history
    <3>2. InRing' = InRing
      BY <3>1 DEF InRing
    <3>3. InRing \cup jobIds \subseteq InRing' \cup jobIds'
      BY <3>1, <3>2
    <3> QED
      BY <3>1, <3>3, PlannedStays
  <2>2. CASE TakePrevious \/ TakeCurrent
    <3>1. /\ UNCHANGED pushed
          /\ \/ \E s \in 0..Period-1 : TakeSlot(s)
             \/ UNCHANGED <<ring, jobIds>>
      BY <2>2, TakeOf
    <3>2. jobIds = {}
      BY <2>2 DEF TakePrevious, TakeCurrent, InTime
    <3>3. InRing \subseteq InRing' \cup jobIds'
      <4>1. CASE UNCHANGED <<ring, jobIds>>
        BY <4>1 DEF InRing
      <4>2. ASSUME NEW s \in 0..Period-1, TakeSlot(s)
            PROVE  InRing \subseteq InRing' \cup jobIds'
        <5>1. jobIds' = ring[s] /\ \A u \in (0..Period-1) \ {s} : ring'[u] = ring[u]
          BY <4>2 DEF TakeSlot, TypeOK
        <5> QED
          BY <5>1 DEF InRing
      <4> QED
        BY <3>1, <4>1, <4>2
    <3> QED
      BY <3>1, <3>2, <3>3, PlannedStays
  <2>3. ASSUME NEW j \in Jobs, TrigPush(j)
        PROVE  \A k \in Jobs : \A o : IsPlanned(k, o) => IsPlanned(k, o)'
    <3> DEFINE O == Of(j, jobIds)
    <3>1. /\ Push(j, O) /\ ring' = ring /\ jobIds' = {e \in jobIds : e[1] # j}
      BY <2>3 DEF TrigPush
    <3>2. O \in SUBSET Nat /\ \A o : <<j, o>> \in jobIds => o \in O
      <4>1. \A o : <<j, o>> \in jobIds => <<j, o>>[2] = o
        OBVIOUS
      <4> QED
        BY <4>1, EntryTypes DEF Of
    <3> HIDE DEF O
    <3>3. /\ PushedOccs(j)' = PushedOccs(j) \cup O
          /\ \A k \in Jobs \ {j} : PushedOccs(k)' = PushedOccs(k)
      BY <3>1, <3>2, PushRecord
    <3>4. \A k \in Jobs \ {j} : \A o : <<k, o>> \in jobIds => <<k, o>> \in jobIds'
      BY <3>1
    <3>5. InRing' = InRing
      BY <3>1 DEF InRing
    <3> QED
      BY <3>2, <3>3, <3>4, <3>5 DEF IsPlanned
  <2> QED
    BY <2>1, <2>2, <2>3 DEF TrigStep
<1> QED
  BY <1>1, <1>2, <1>3, SkipSame

\* No step loses an occurrence that is owed.
LEMMA SkipNext ==
  ASSUME Punctual, \A c, d \in Crons : c = d, EarlyInv, ThreadsInv', StartsAhead, TimelyInv,
         SkipInv, [Next]_vars
  PROVE  SkipInv'
<1> ThreadsInv /\ TypeOK /\ InTime /\ ScansInTime
  BY DEF EarlyInv, ThreadsInv, TimelyInv
<1>1. ~ScanException /\ ~TrigException /\ ~StopScan /\ ~Crash /\ ~StopTrigger /\ ~Restart
  BY Undisturbed DEF InTime, StopTrigger, Restart, Up
<1>2. CASE Tick \/ EndOfModel \/ UNCHANGED vars
  <2>1. UNCHANGED <<row, since, ring, jobIds, pushed, scanPc, mem, nowTime, picked, jobInfos>>
    BY <1>2 DEF Tick, EndOfModel, vars, scanVars, trigVars, history
  <2>2. \A j \in Jobs : InScan(j)' = InScan(j)
    BY <2>1 DEF InScan
  <2>3. \A j \in Jobs : \A o : IsPlanned(j, o) => IsPlanned(j, o)'
    <3>1. InRing' = InRing
      BY <2>1 DEF InRing
    <3> QED
      BY <2>1, <3>1, PlannedStays
  <2> QED
    BY <2>1, <2>2, <2>3, SkipSame
<1>3. CASE InfoService
  BY <1>3, SkipInfoService DEF InTime
<1>4. CASE ScanStep
  <2>1. ASSUME NEW j \in Jobs,
               ScanGetSet \/ ScanNextJob \/ ScanUpdates \/ ScanUpdate(j) \/ ScanRest
        PROVE  SkipInv'
    BY <2>1, SkipMoves
  <2>2. ASSUME NEW j \in Jobs, ScanMissed(j) \/ ScanDueNow(j) \/ ScanLater(j)
        PROVE  SkipInv'
    BY <2>2, SkipLoopBody
  <2> QED
    BY <1>4, <2>1, <2>2, SkipSelect, SkipAdd DEF ScanStep
<1>5. CASE TrigStep
  BY <1>5, SkipTrig
<1> QED
  BY <1>1, <1>2, <1>3, <1>4, <1>5 DEF Next

\* Wherever the threads and InfoService are, an occurrence that a job owes is in the ring, in
\* the trigger thread's hands, pushed, or still ahead of the job's row or of the scan's copy.
THEOREM OwedIsPlanned ==
  ASSUME Punctual, \A c, d \in Crons : c = d
  PROVE  Spec => []SkipInv
<1>1. StartLag = 0 /\ ~MayCrash /\ TrigLag + PreRead + 1 < Period
  BY Lags DEF Punctual
<1>2. Spec => []OnceInv /\ []EarlyInv /\ []TimelyInv
  BY <1>1, PlansLieAhead, NothingBeyondTheTurn, ScansKeepAhead, PTL
<1>3. Init => SkipInv
  BY SkipInit
<1>4. /\ SkipInv /\ OnceInv /\ EarlyInv /\ TimelyInv /\ EarlyInv' /\ [Next]_vars
      => SkipInv'
  <2> SUFFICES ASSUME SkipInv, OnceInv, EarlyInv, TimelyInv, EarlyInv', [Next]_vars
               PROVE  SkipInv'
    OBVIOUS
  <2>1. StartsAhead /\ ThreadsInv'
    BY DEF OnceInv, Inv, TimelyInv, InTime, EarlyInv
  <2> QED
    BY <2>1, SkipNext
<1> QED
  BY <1>2, <1>3, <1>4, PTL DEF Spec

\* Nothing is left out: with punctual threads and one expression, every occurrence that a
\* running job owes has been handed to the pool when its second is over, whatever
\* InfoService has done in between.
THEOREM NothingIsSkipped ==
  ASSUME Punctual, \A c, d \in Crons : c = d
  PROVE  Spec => []NoSkip
<1>1. ThreadsInv /\ TimelyInv /\ SkipInv => NoSkip
  <2> SUFFICES ASSUME ThreadsInv, TimelyInv, SkipInv, NEW j \in Jobs,
                      NEW o \in Occ[row[j].cron], since[j] # 0, since[j] <= o,
                      o < clock
               PROVE  o \in PushedOccs(j)
    BY DEF NoSkip
  <2> TypeOK /\ InTime /\ EntriesInTime /\ ScansInTime
    BY DEF ThreadsInv, TimelyInv
  <2>1. Owes(j, o)
    BY DEF Owes
  <2>2. o \in Nat /\ Due(o)
    BY <2>1, OwedAreDue
  <2>3. ~(o >= clock) /\ ~(o > clock)
    <3>1. clock \in Nat
      BY DEF TypeOK
    <3> QED
      BY <2>2, <3>1
  <2>4. ~MayPlan(j, o)
    BY <2>2, <2>3, CopyAhead, RowAhead DEF MayPlan
  <2>5. <<j, o>> \notin InRing \cup jobIds
    <3>1. <<j, o>>[2] = o
      OBVIOUS
    <3> QED
      BY <2>2, <2>3, <3>1 DEF EntriesInTime
  <2> QED
    BY <2>1, <2>4, <2>5 DEF SkipInv, NoneLeftOut, IsPlanned
<1>2. EarlyInv => ThreadsInv
  BY DEF EarlyInv
<1>3. TrigLag + PreRead + 1 < Period
  BY Lags
<1> QED
  BY <1>1, <1>2, <1>3, NothingBeyondTheTurn, ScansKeepAhead, OwedIsPlanned, PTL
=============================================================================

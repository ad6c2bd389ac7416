----------------------------- MODULE Scheduler -----------------------------
(***************************************************************************)
(* The scheduler of the admin server: JobScheduleHelper's scan-job and     *)
(* trigger-job threads, the static ring TRIGGER_JOB_MAP they share, the    *)
(* table job_info they and InfoService write, and the process that may     *)
(* stop, crash and start again.                                            *)
(*                                                                         *)
(* Time is counted in whole seconds, as the code does (/ 1000).  A step of *)
(* a thread takes no time; between two steps any amount may pass, as much  *)
(* as the Lag constants let it.  An entry of the ring is a job together    *)
(* with the occurrence it was put there for: the code keeps the job only,  *)
(* the occurrence is history, read by properties and never by a guard.     *)
(***************************************************************************)
EXTENDS Integers, Sequences, FiniteSets

CONSTANTS
  Jobs,        \* ids of job_info
  Crons,       \* cron expressions
  Occ,         \* [Crons -> SUBSET Nat]: the seconds an expression matches
  Period,      \* size of the ring; 60 in the code
  PreRead,     \* preReadSecond; 10
  ScanSleep,   \* sleep between two scans; 5
  StartDelay,  \* AdminConstants.SCAN_JOB_SLEEP_MS in seconds; 10
  Clock0,      \* the second the model starts at
  MaxClock,    \* bound: the last second of the model
  MaxOps,      \* bound: number of operations of InfoService
  MaxFails,    \* bound: number of exceptions in the two threads
  MayCrash,    \* may the process be killed at any point?
  MayStop,     \* may JobScheduleHelper.stop be called?
  TrigLag,     \* seconds the trigger thread may be behind
  ScanLag,     \* seconds a scan may take, or be behind
  StartLag     \* seconds between the two database calls of InfoService.start

ASSUME ConstantsAssumption ==
  /\ Jobs # {} /\ Crons # {}
  /\ Occ \in [Crons -> SUBSET Nat]
  /\ {Period, ScanSleep, PreRead, StartDelay, Clock0} \subseteq Nat \ {0}
  /\ PreRead < Period /\ PreRead <= StartDelay /\ ScanSleep < PreRead
  /\ {MaxClock, MaxOps, MaxFails, TrigLag, ScanLag, StartLag} \subseteq Nat
  /\ {MayCrash, MayStop} \subseteq BOOLEAN

VARIABLES
  clock,       \* System.currentTimeMillis() / 1000
  row,         \* the table job_info
  starting,    \* calls of InfoService.start between their select and update
  ring,        \* TRIGGER_JOB_MAP; {} where the map has no key
  scanRunning, scanPc,
  wake,        \* when the scan thread's sleep ends
  nowTime,     \* scanJob's local nowTime
  jobInfos,    \* ids of scanJob's local list, those of the loop not yet done
  picked,      \* ids of the whole list
  mem,         \* the JobInfo objects of the list
  cur,         \* the job of the current iteration of scanJob's for loop
  held,        \* where the set is that computeIfAbsent returned
  trigRunning, trigPc,
  trigNow,     \* triggerJob's local nowTimeTs, or when its sleep ends
  jobIds,      \* the entries triggerJob took and has still to push
  downAt,      \* when the process was last seen alive
  pushed,      \* history: per job, its CRON pushes to the trigger pool
  since,       \* history: the occurrence a running job owes its pushes from; 0: none
  ops, fails

scanVars == <<scanRunning, scanPc, wake, nowTime, jobInfos, picked, mem, cur, held>>
trigVars == <<trigRunning, trigPc, trigNow, jobIds>>
history  == <<pushed, since>>
bounds   == <<ops, fails>>
vars == <<clock, row, starting, ring, scanVars, trigVars, downAt, history, bounds>>

Status == {"STOPPED", "RUNNING", "FRESH", "GONE"}   \* FRESH, GONE: no such row
Info   == [st: Status, last: Nat, next: Nat, cron: Crons]
Entry  == Jobs \X Nat
NoStart == [next |-> 0, at |-> 0]

\* mutants of the operators below: what a bug in their code would do
NextValidOrMinusOne(c, t) ==
  IF \E o \in Occ[c] : o > t THEN CHOOSE o \in Occ[c] : o > t ELSE -1
MaxWithoutPreRead == nowTime
MaxWithWholeRing  == nowTime + Period
StartWithoutDelay == clock
TwoSecondsOn(t)   == t + 2

\* CronExpression.getNextValidTimeAfter: the least match after second t; 0 for null
NextValidTimeAfter(c, t) ==
  LET later == {o \in Occ[c] : o > t}
      first == {o \in later : \A p \in later : o <= p}
  IN  IF first = {} THEN 0 ELSE CHOOSE o \in first : TRUE

\* mutant: one second too far
RefreshedTooFar(info, from) ==
  LET n == NextValidTimeAfter(info.cron, from + 1)
  IN  [info EXCEPT !.st = IF n = 0 THEN "STOPPED" ELSE "RUNNING", !.last = info.next, !.next = n]

\* refreshNextValidTime
Refreshed(info, from) ==
  LET n == NextValidTimeAfter(info.cron, from)
  IN  IF n = 0
      THEN [info EXCEPT !.st = "STOPPED", !.last = 0, !.next = 0]
      ELSE [info EXCEPT !.st = "RUNNING", !.last = info.next, !.next = n]

Present(j) == row[j].st \in {"STOPPED", "RUNNING"}
maxTriggerTime == nowTime + PreRead
StartFrom == clock + StartDelay
NextSecond(t) == t + 1
Slot(t) == t % Period
Of(j, entries) == {o \in {e[2] : e \in entries} : <<j, o>> \in entries}

\* JobTriggerPoolHelper.push(j, CRON), for the occurrences O
Push(j, O) == pushed' = [pushed EXCEPT ![j] = Append(@, [occs |-> O, at |-> clock])]

-----------------------------------------------------------------------------
(* InfoService, called from the web threads of InfoController *)

Up == trigPc # "end"
Operation == Up /\ ops < MaxOps /\ ops' = ops + 1

\* start: the row is read and the next time computed ...
StartRead(j) ==
  /\ Operation
  /\ Present(j) /\ starting[j] = NoStart
  /\ NextValidTimeAfter(row[j].cron, StartFrom) # 0
  /\ starting' = [starting EXCEPT ![j] =
       [next |-> NextValidTimeAfter(row[j].cron, StartFrom), at |-> clock]]
  /\ UNCHANGED <<clock, row, ring, scanVars, trigVars, downAt, history, fails>>

\* ... and updateNextTimeById writes it, if the row is still there
StartWrite(j) ==
  /\ starting[j] # NoStart
  /\ starting' = [starting EXCEPT ![j] = NoStart]
  /\ row' = IF Present(j)
            THEN [row EXCEPT ![j].st = "RUNNING", ![j].last = 0,
                             ![j].next = starting[j].next]
            ELSE row
  /\ since' = [since EXCEPT ![j] = IF Present(j) THEN starting[j].next ELSE @]
  /\ UNCHANGED <<clock, ring, scanVars, trigVars, downAt, pushed, bounds>>

Stop(j) ==
  /\ Operation
  /\ Present(j)
  /\ row' = [row EXCEPT ![j].st = "STOPPED", ![j].last = 0, ![j].next = 0]
  /\ since' = [since EXCEPT ![j] = 0]
  /\ UNCHANGED <<clock, starting, ring, scanVars, trigVars, downAt, pushed, fails>>

\* saveOrUpdate: a new row, or the whole row from a form without trigger fields,
\* which leaves the columns' defaults
SaveOrUpdate(j, c) ==
  /\ Operation
  /\ row[j].st # "GONE"
  /\ row[j].st = "FRESH" => Occ[c] # {}
  /\ row' = [row EXCEPT ![j] = [st |-> "STOPPED", last |-> 0, next |-> 0, cron |-> c]]
  /\ since' = [since EXCEPT ![j] = 0]
  /\ UNCHANGED <<clock, starting, ring, scanVars, trigVars, downAt, pushed, fails>>

Copy(j, k) ==
  /\ Operation
  /\ Present(j) /\ row[k].st = "FRESH"
  /\ row' = [row EXCEPT ![k] = [st |-> "STOPPED", last |-> 0, next |-> 0,
                                cron |-> row[j].cron]]
  /\ UNCHANGED <<clock, starting, ring, scanVars, trigVars, downAt, history, fails>>

Delete(j) ==
  /\ Operation
  /\ Present(j)
  /\ row' = [row EXCEPT ![j].st = "GONE", ![j].last = 0, ![j].next = 0]
  /\ since' = [since EXCEPT ![j] = 0]
  /\ UNCHANGED <<clock, starting, ring, scanVars, trigVars, downAt, pushed, fails>>

InfoService ==
  \E j \in Jobs : \/ StartRead(j) \/ StartWrite(j) \/ Stop(j) \/ Delete(j)
                  \/ \E c \in Crons : SaveOrUpdate(j, c)
                  \/ \E k \in Jobs : Copy(j, k)

-----------------------------------------------------------------------------
(* scanJob *)

scanKeeps == <<clock, starting, trigRunning, trigPc, trigNow, downAt, since, ops>>

\* the clock and the RUNNING rows that are due within PreRead seconds
ScanSelect ==
  /\ scanPc = "sleep" /\ clock >= wake
  /\ nowTime' = clock
  /\ picked' = {j \in Jobs : row[j].st = "RUNNING" /\ row[j].next <= clock + PreRead}
  /\ jobInfos' = picked'
  /\ mem' = row
  /\ scanPc' = "jobs"
  /\ UNCHANGED <<scanKeeps, row, ring, jobIds, pushed, fails, scanRunning, wake, cur, held>>

\* the for loop's body: its if, which leaves the job as info, and on to its while
LoopBody(j, info) ==
  /\ scanPc' = "while" /\ cur' = j /\ jobInfos' = jobInfos \ {j}
  /\ mem' = [mem EXCEPT ![j] = info]
  /\ UNCHANGED <<scanKeeps, row, ring, jobIds, fails, scanRunning, wake, nowTime, picked, held>>

\* mutant: a missed occurrence is made up for
DueOrMissed(j) == mem[j].next <= nowTime

\* 2. of the code's three cases; PreRead < Period makes it next = nowTime
DueNow(j) == mem[j].next >= nowTime /\ Slot(mem[j].next) = Slot(nowTime)

ScanMissed(j) ==
  /\ scanPc = "jobs" /\ j \in jobInfos
  /\ mem[j].next < nowTime
  /\ LoopBody(j, Refreshed(mem[j], clock)) /\ UNCHANGED pushed

ScanDueNow(j) ==
  /\ scanPc = "jobs" /\ j \in jobInfos
  /\ DueNow(j)
  /\ Push(j, {mem[j].next})
  /\ LoopBody(j, Refreshed(mem[j], mem[j].next))

ScanLater(j) ==
  /\ scanPc = "jobs" /\ j \in jobInfos
  /\ mem[j].next >= nowTime /\ ~DueNow(j)
  /\ LoopBody(j, mem[j]) /\ UNCHANGED pushed

\* the while loop: computeIfAbsent hands out the set of the slot ...
ScanGetSet ==
  /\ scanPc = "while"
  /\ mem[cur].next <= maxTriggerTime /\ mem[cur].next # 0
  /\ scanPc' = "add" /\ held' = "ring"
  /\ UNCHANGED <<scanKeeps, row, ring, jobIds, pushed, fails, scanRunning, wake,
                 nowTime, jobInfos, picked, mem, cur>>

\* ... and the job is added to it, without a lock.  A set the trigger thread has
\* removed in between takes the job with it; while that thread still iterates, the
\* job may be seen, missed, or end the iteration (ConcurrentModificationException).
ScanAdd ==
  /\ scanPc = "add"
  /\ LET e == <<cur, mem[cur].next>> IN
     \/ /\ held = "ring"
        /\ ring' = [ring EXCEPT ![Slot(mem[cur].next)] = @ \cup {e}]
        /\ UNCHANGED <<trigPc, trigNow, jobIds>>
     \/ /\ held # "ring"
        /\ UNCHANGED <<ring, trigPc, trigNow, jobIds>>
     \/ /\ held = "iterated"
        /\ jobIds' = jobIds \cup {e}
        /\ UNCHANGED <<ring, trigPc, trigNow>>
     \/ /\ held = "iterated" /\ jobIds # {}
        /\ jobIds' = {} /\ trigPc' = "sleep"
        /\ UNCHANGED <<ring, trigNow>>
  /\ mem' = [mem EXCEPT ![cur] = Refreshed(@, @.next)]
  /\ scanPc' = "while" /\ held' = "none"
  /\ UNCHANGED <<clock, starting, trigRunning, downAt, row, history, bounds,
                 scanRunning, wake, nowTime, jobInfos, picked, cur>>

ScanNextJob ==
  /\ scanPc = "while"
  /\ mem[cur].next > maxTriggerTime \/ mem[cur].next = 0
  /\ scanPc' = "jobs"
  /\ UNCHANGED <<scanKeeps, row, ring, jobIds, pushed, fails, scanRunning, wake,
                 nowTime, jobInfos, picked, mem, cur, held>>

\* the second loop: updateNextTimeById for every job of the list
ScanUpdates ==
  /\ scanPc = "jobs" /\ jobInfos = {}
  /\ scanPc' = "update" /\ jobInfos' = picked
  /\ UNCHANGED <<scanKeeps, row, ring, jobIds, pushed, fails, scanRunning, wake,
                 nowTime, picked, mem, cur, held>>

ScanUpdate(j) ==
  /\ scanPc = "update" /\ j \in jobInfos
  /\ row' = IF Present(j)
            THEN [row EXCEPT ![j] = [mem[j] EXCEPT !.cron = row[j].cron]]
            ELSE row
  /\ jobInfos' = jobInfos \ {j}
  /\ UNCHANGED <<scanKeeps, ring, jobIds, pushed, fails, scanRunning, scanPc, wake,
                 nowTime, picked, mem, cur, held>>

\* scanJob's local variables are gone
Blank == [j \in Jobs |-> [st |-> "STOPPED", last |-> 0, next |-> 0,
                         cron |-> CHOOSE c \in Crons : TRUE]]
NoLocals ==
  /\ nowTime' = 0 /\ jobInfos' = {} /\ picked' = {} /\ mem' = Blank
  /\ cur' = (CHOOSE j \in Jobs : TRUE) /\ held' = "none"

ScanReturn(t) ==
  /\ scanPc' = (IF scanRunning THEN "sleep" ELSE "end") /\ wake' = t
  /\ NoLocals
  /\ UNCHANGED <<scanKeeps, row, ring, jobIds, pushed, scanRunning>>

ScanRest ==
  /\ scanPc = "update" /\ jobInfos = {}
  /\ ScanReturn(clock + ScanSleep) /\ UNCHANGED fails

\* an exception: the pool rejects a push, or the database a call.  The scan ends
\* without its updates and the thread's loop starts the next one at once.
ScanException ==
  /\ fails < MaxFails /\ fails' = fails + 1
  /\ \/ scanPc = "jobs" /\ \E j \in jobInfos : DueNow(j)
     \/ scanPc = "update" /\ jobInfos # {}
  /\ ScanReturn(clock)

ScanStep ==
  \/ ScanSelect \/ ScanGetSet \/ ScanAdd \/ ScanNextJob \/ ScanUpdates \/ ScanRest
  \/ \E j \in Jobs : ScanMissed(j) \/ ScanDueNow(j) \/ ScanLater(j) \/ ScanUpdate(j)

-----------------------------------------------------------------------------
(* triggerJob *)

trigKeeps == <<clock, row, starting, scanRunning, scanPc, wake, nowTime, jobInfos,
               picked, mem, cur, downAt, since, ops>>

TrigRead ==
  /\ trigPc = "sleep" /\ clock >= trigNow
  /\ trigNow' = clock /\ trigPc' = "read"
  /\ UNCHANGED <<trigKeeps, ring, held, trigRunning, jobIds, pushed, fails>>

\* TRIGGER_JOB_MAP.remove(s): the entries of the slot become the thread's own
TakeSlot(s) ==
  /\ jobIds' = ring[s]
  /\ ring' = [ring EXCEPT ![s] = {}]
  /\ held' = CASE held = "ring" /\ Slot(mem[cur].next) = s -> "iterated"
               [] held = "iterated" -> "lost"
               [] OTHER -> held

\* remove(curSecond - 1): there is no key -1
TakePrevious ==
  /\ trigPc = "read"
  /\ trigPc' = "previous"
  /\ IF Slot(trigNow) = 0 THEN UNCHANGED <<ring, held, jobIds>> ELSE TakeSlot(Slot(trigNow) - 1)
  /\ UNCHANGED <<trigKeeps, trigRunning, trigNow, pushed, fails>>

TrigPush(j) ==
  /\ trigPc \in {"previous", "current"}
  /\ Of(j, jobIds) # {}
  /\ Push(j, Of(j, jobIds))
  /\ jobIds' = {e \in jobIds : e[1] # j}
  /\ UNCHANGED <<trigKeeps, ring, held, trigRunning, trigPc, trigNow, fails>>

TakeCurrent ==
  /\ trigPc = "previous" /\ jobIds = {}
  /\ trigPc' = "current"
  /\ TakeSlot(Slot(trigNow))
  /\ UNCHANGED <<trigKeeps, trigRunning, trigNow, pushed, fails>>

TrigReturn(t) ==
  /\ trigPc' = (IF trigRunning THEN "sleep" ELSE "end") /\ trigNow' = t
  /\ jobIds' = {}
  /\ held' = IF held = "iterated" THEN "lost" ELSE held
  /\ UNCHANGED <<clock, row, starting, scanRunning, scanPc, wake, nowTime, jobInfos,
                 picked, mem, cur, ops, ring, trigRunning, history>>

\* sleep to the next whole second, or return at once when that has begun
TrigRest ==
  /\ trigPc = "current" /\ jobIds = {}
  /\ TrigReturn(NextSecond(trigNow))
  /\ downAt' = IF trigRunning THEN downAt ELSE clock
  /\ UNCHANGED fails

\* the pool rejects a push: the entries left are dropped
TrigException ==
  /\ fails < MaxFails /\ fails' = fails + 1
  /\ trigPc \in {"previous", "current"} /\ jobIds # {}
  /\ TrigReturn(trigNow)
  /\ downAt' = IF trigRunning THEN downAt ELSE clock

TrigStep == TrigRead \/ TakePrevious \/ TakeCurrent \/ TrigRest \/ \E j \in Jobs : TrigPush(j)

-----------------------------------------------------------------------------
(* the process: start, stop, crash *)

\* stop(): the scan thread first, whose sleep is interrupted ...
StopScan ==
  /\ MayStop /\ scanRunning /\ Up
  /\ scanRunning' = FALSE
  /\ scanPc' = IF scanPc = "sleep" THEN "end" ELSE scanPc
  /\ UNCHANGED <<scanKeeps, row, ring, jobIds, pushed, fails, wake, nowTime, jobInfos,
                 picked, mem, cur, held>>

\* ... and, once that has ended, the trigger thread
StopTrigger ==
  /\ scanPc = "end" /\ trigRunning /\ Up
  /\ trigRunning' = FALSE
  /\ trigPc' = IF trigPc = "sleep" THEN "end" ELSE trigPc
  /\ downAt' = clock
  /\ UNCHANGED <<clock, row, starting, ring, scanVars, trigNow, jobIds, history, bounds>>

\* what dies with the process
NoProcess ==
  /\ ring' = [s \in 0..Period-1 |-> {}]
  /\ starting' = [j \in Jobs |-> NoStart]
  /\ jobIds' = {} /\ NoLocals

Crash ==
  /\ MayCrash /\ Up
  /\ NoProcess
  /\ scanPc' = "end" /\ trigPc' = "end" /\ downAt' = clock
  /\ UNCHANGED <<clock, row, scanRunning, wake, trigRunning, trigNow, history, bounds>>

\* start() in a new process, at least a second later
Restart ==
  /\ ~Up /\ clock > downAt
  /\ NoProcess
  /\ scanRunning' = TRUE /\ scanPc' = "sleep" /\ wake' = clock
  /\ trigRunning' = TRUE /\ trigPc' = "sleep" /\ trigNow' = clock + 1
  /\ UNCHANGED <<clock, row, downAt, history, bounds>>

\* a second passes, unless it would make a thread later than its lag allows
Tick ==
  /\ clock < MaxClock
  /\ Up => clock < trigNow + TrigLag
  /\ scanPc # "end" => clock < (IF scanPc = "sleep" THEN wake ELSE nowTime) + ScanLag
  /\ \A j \in Jobs : starting[j] # NoStart => clock < starting[j].at + StartLag
  /\ clock' = clock + 1
  /\ UNCHANGED <<row, starting, ring, scanVars, trigVars, downAt, history, bounds>>

-----------------------------------------------------------------------------
\* the rows an earlier process may have left
InitRow == {[st |-> "STOPPED", last |-> 0, next |-> 0, cron |-> c] : c \in Crons}
  \cup {[st |-> "FRESH", last |-> 0, next |-> 0, cron |-> c] : c \in Crons}
  \cup {i \in {[st |-> "RUNNING", last |-> 0, next |-> NextValidTimeAfter(c, t), cron |-> c]
                 : c \in Crons, t \in 0..Clock0 + StartDelay} : i.next # 0}

Init ==
  /\ clock = Clock0
  /\ row \in [Jobs -> InitRow]
  /\ starting = [j \in Jobs |-> NoStart]
  /\ ring = [s \in 0..Period-1 |-> {}]
  /\ scanRunning = TRUE /\ scanPc = "sleep" /\ wake = Clock0
  /\ nowTime = 0 /\ jobInfos = {} /\ picked = {} /\ held = "none"
  /\ mem = Blank /\ cur = CHOOSE j \in Jobs : TRUE
  /\ trigRunning = TRUE /\ trigPc = "sleep" /\ trigNow = Clock0 + 1 /\ jobIds = {}
  /\ downAt = 0
  /\ pushed = [j \in Jobs |-> << >>]
  /\ since = [j \in Jobs |->
       CASE row[j].st # "RUNNING" -> 0
         [] row[j].next > Clock0 + PreRead -> row[j].next
         [] OTHER -> Clock0 + PreRead + 1]
  /\ ops = 0 /\ fails = 0

\* the bound on the clock is no deadlock
EndOfModel == clock = MaxClock /\ UNCHANGED vars

Next == \/ Tick \/ EndOfModel \/ InfoService \/ ScanStep \/ ScanException \/ TrigStep \/ TrigException
        \/ StopScan \/ StopTrigger \/ Crash \/ Restart

Spec == Init /\ [][Next]_vars

\* the two threads run, time passes, and a call of start, once made, ends; nobody has
\* to call InfoService
Fairness ==
  /\ WF_vars(Tick) /\ WF_vars(ScanStep) /\ WF_vars(TrigStep)
  /\ \A j \in Jobs : WF_vars(StartWrite(j))

FairSpec == Spec /\ Fairness

-----------------------------------------------------------------------------
TypeOK ==
  /\ clock \in Nat
  /\ row \in [Jobs -> Info] /\ mem \in [Jobs -> Info]
  /\ starting \in [Jobs -> [next: Nat, at: Nat]]
  /\ ring \in [0..Period-1 -> SUBSET Entry] /\ jobIds \subseteq Entry
  /\ scanRunning \in BOOLEAN /\ trigRunning \in BOOLEAN
  /\ scanPc \in {"sleep", "jobs", "while", "add", "update", "end"}
  /\ trigPc \in {"sleep", "read", "previous", "current", "end"}
  /\ wake \in Nat /\ nowTime \in Nat /\ trigNow \in Nat /\ downAt \in Nat
  /\ jobInfos \subseteq Jobs /\ picked \subseteq Jobs /\ cur \in Jobs
  /\ held \in {"none", "ring", "iterated", "lost"}
  /\ pushed \in [Jobs -> Seq([occs: SUBSET Nat, at: Nat])]
  /\ since \in [Jobs -> Nat] /\ ops \in Nat /\ fails \in Nat

\* No occurrence of a job is handed to the trigger pool twice, in whatever order the
\* scan's direct push, its put into the ring, the trigger thread's removal and the
\* calls of InfoService meet.
AtMostOnce ==
  \A j \in Jobs : \A i, k \in DOMAIN pushed[j] :
    i # k => pushed[j][i].occs \cap pushed[j][k].occs = {}

\* No job is handed to the pool before the second it is due: the ring is indexed by
\* the second of the minute, so an entry for a later minute must not be in it yet.
NotEarly ==
  \A j \in Jobs : \A i \in DOMAIN pushed[j] :
    \A o \in pushed[j][i].occs : o <= pushed[j][i].at

PushedOccs(j) == UNION {pushed[j][i].occs : i \in DOMAIN pushed[j]}

\* No push is late while the threads are less than a second behind, once the occurrences
\* the process found when it started are past: the scans keep ahead of the trigger thread,
\* which finds in each second's slot what is due in it.
OnTime ==
  \A j \in Jobs : \A i \in DOMAIN pushed[j] : \A o \in pushed[j][i].occs :
    o > Clock0 + PreRead => pushed[j][i].at <= o

\* Nothing is left out: every occurrence a job owes is pushed once its second is over,
\* whichever scan planned it and whatever InfoService did to the row in the meantime.
NoSkip ==
  \A j \in Jobs : since[j] # 0 =>
    \A o \in Occ[row[j].cron] :
      since[j] <= o /\ o < clock => o \in PushedOccs(j)

\* triggerJob's comment on the slot before the current one, "上一秒可能有任务的情况：1、休眠异常，
\* 2、调度时间超过一秒": a trigger thread that is a second behind takes in the next second what
\* it has missed, so that nothing stays in the ring longer than it may be behind.
MissedIsTaken ==
  \A s \in 0..Period-1 : \A e \in ring[s] :
    e[2] > Clock0 + PreRead => clock <= e[2] + 2 * TrigLag

\* InfoService.stop, "stop the job": a stopped job runs again only when it is started.
StopSticks ==
  [][\A j \in Jobs : row[j].st = "STOPPED" /\ row'[j].st = "RUNNING"
                       => starting[j] # NoStart]_vars

\* A started job is pushed at its first occurrence, unless it is stopped or started anew
\* first: no job goes on owing that push.
OwesFirst(j) ==
  since[j] \in Occ[row[j].cron] \cap 1..MaxClock /\ since[j] \notin PushedOccs(j)
StartedFires == \A j \in Jobs : []<>~OwesFirst(j)

\* The scheduler implements CronFire, also when its process is killed or stopped at any
\* point and started again with the rows the last one left.
Promise == INSTANCE CronFire WITH Matches <- UNION {Occ[c] : c \in Crons}, failed <- fails > 0
ImplementsCronFire == Promise!Spec
=============================================================================

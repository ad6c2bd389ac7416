---------------------------- MODULE SchedulerInv ----------------------------
(***************************************************************************)
(* Why the scheduler pushes what it must, once and in time.  An occurrence *)
(* is planned once it is in the ring, in the hands of the trigger thread   *)
(* or pushed.  Inv says that these three never share one, and that         *)
(* everything that may still be planned, by a row, by a scan's copy of it  *)
(* or by a call of InfoService.start under way, lies ahead of what has     *)
(* been planned; EarlyInv, that what the trigger thread takes has come;    *)
(* TimelyInv, that nothing owed is left behind.                            *)
(***************************************************************************)
EXTENDS Scheduler

InRing == UNION {ring[s] : s \in 0..Period-1}

\* jobs of the scan's list whose row the scan has still to write
InScan(j) ==
  \/ scanPc \in {"jobs", "while", "add"} /\ j \in picked
  \/ scanPc = "update" /\ j \in jobInfos

SlotsRight == \A s \in 0..Period-1 : \A e \in ring[s] : Slot(e[2]) = s

\* what is left of the list is untouched; the current job is no longer in it
ScanLocals ==
  /\ jobInfos \subseteq picked /\ nowTime <= clock
  /\ scanPc \in {"jobs", "while", "add"} =>
       \A j \in jobInfos : mem[j].st = "RUNNING" /\ mem[j].next <= maxTriggerTime
  /\ scanPc \in {"while", "add"} =>
       /\ cur \in picked \ jobInfos
       /\ \/ mem[cur].st = "RUNNING" /\ mem[cur].next >= nowTime
          \/ mem[cur].st = "STOPPED" /\ mem[cur].next = 0
  /\ scanPc = "add" => mem[cur].st = "RUNNING" /\ mem[cur].next <= maxTriggerTime
  /\ held # "none" <=> scanPc = "add"

Behind ==
  trigPc \in {"read", "previous", "current"} => trigNow <= clock /\ clock <= trigNow + TrigLag

ThreadsInv == TypeOK /\ SlotsRight /\ ScanLocals /\ Behind

-----------------------------------------------------------------------------
(* Once *)

Apart ==
  /\ \A e \in InRing : e \notin jobIds /\ e[2] \notin PushedOccs(e[1])
  /\ \A e \in jobIds : e[2] \notin PushedOccs(e[1])

\* what is planned of j lies before t, or was pushed before the process last ended
Before(j, t) ==
  /\ \A e \in InRing \cup jobIds : e[1] = j => e[2] < t
  /\ \A o \in PushedOccs(j) : o < t \/ o <= downAt

NoneBeyond == \A j \in Jobs : Before(j, clock + PreRead + 1)

RowsAhead ==
  \A j \in Jobs : row[j].st = "RUNNING" /\ ~InScan(j) => Before(j, row[j].next)

MemAhead ==
  \A j \in Jobs : InScan(j) /\ mem[j].st = "RUNNING" => Before(j, mem[j].next)

StartsAhead ==
  \A j \in Jobs : starting[j] # NoStart =>
    starting[j].at = clock /\ starting[j].next > clock + StartDelay

StopOrder == trigPc = "end" \/ ~trigRunning => scanPc = "end"

\* a process begins at least a second after the one before it has ended
Alive ==
  /\ downAt <= clock
  /\ scanPc # "end" => downAt < clock
  /\ scanPc \in {"jobs", "while", "add"} => downAt < nowTime

Inv ==
  /\ ThreadsInv /\ Apart /\ AtMostOnce /\ NoneBeyond /\ RowsAhead
  /\ MemAhead /\ StartsAhead /\ StopOrder /\ Alive

\* ... as long as no thread has failed
OnceInv == fails = 0 => Inv

-----------------------------------------------------------------------------
(* Not early *)

\* nothing beyond the read-ahead is in the ring, and what is taken or pushed has come
Come ==
  /\ \A e \in InRing : e[2] <= clock + PreRead
  /\ \A e \in jobIds : e[2] <= clock
  /\ held \in {"iterated", "lost"} => mem[cur].next <= clock
  /\ \A j \in Jobs : \A o \in PushedOccs(j) : o <= clock

EarlyInv == ThreadsInv /\ Come /\ NotEarly

\* only seconds that an expression matches are planned
Seconds == UNION {Occ[c] : c \in Crons}
Matching ==
  /\ \A j \in Jobs : row[j].st = "RUNNING" => row[j].next \in Seconds
  /\ \A j \in Jobs : mem[j].st = "RUNNING" => mem[j].next \in Seconds
  /\ \A j \in Jobs : starting[j] # NoStart => starting[j].next \in Seconds
  /\ \A e \in InRing \cup jobIds : e[2] \in Seconds

MatchInv == ThreadsInv /\ Matching

-----------------------------------------------------------------------------
(* In time, and nothing left out *)

\* a process that lives, a trigger thread less than a second late, and a scan whose delays
\* leave some of what it reads ahead
Punctual ==
  /\ ~MayCrash /\ ~MayStop /\ MaxFails = 0
  /\ TrigLag = 0 /\ StartLag = 0 /\ PreRead + 1 < Period
  /\ 3 * ScanLag + ScanSleep <= PreRead

\* due when the first scan had had time to plan it
Due(o) == o > Clock0 + PreRead

\* the first scan may find rows whose time has passed
FirstScan == nowTime <= Clock0 + ScanLag

\* a job of the list that the first loop is done with
Planned(j) ==
  /\ InScan(j)
  /\ scanPc = "jobs" => j \notin jobInfos
  /\ scanPc \in {"while", "add"} => j \notin jobInfos /\ j # cur

InTime ==
  /\ fails = 0 /\ scanRunning /\ trigRunning /\ scanPc # "end" /\ trigPc # "end"
  /\ Clock0 <= clock
  /\ scanPc = "sleep" => wake <= clock + ScanSleep /\ clock <= wake + ScanLag
  /\ scanPc # "sleep" => Clock0 <= nowTime /\ clock <= nowTime + ScanLag
  /\ trigPc = "sleep" => trigNow \in {clock, clock + 1}
  /\ trigPc \in {"read", "previous", "current"} => trigNow = clock
  /\ trigPc \in {"sleep", "read"} => jobIds = {}
  /\ held = "iterated" => trigPc \in {"previous", "current"}

\* the trigger thread has still to take this second's slot
ToTake == (trigPc = "sleep" /\ trigNow = clock) \/ trigPc \in {"read", "previous"}

\* no entry's time has passed
EntriesInTime ==
  /\ \A e \in InRing : Due(e[2]) => e[2] >= clock /\ (e[2] = clock => ToTake)
  /\ \A e \in jobIds : Due(e[2]) => e[2] >= clock
  /\ OnTime

\* a scan plans the seconds up to nowTime + PreRead; the next one comes before they are over
ScansInTime ==
  /\ \A j \in Jobs : row[j].st = "RUNNING" /\ ~InScan(j) =>
       IF scanPc = "sleep"
       THEN wake = Clock0 \/ row[j].next + ScanSleep + ScanLag > wake + PreRead
       ELSE row[j].next > maxTriggerTime
  /\ \A j \in Jobs : InScan(j) /\ mem[j].st = "RUNNING" =>
       /\ FirstScan \/ mem[j].next > nowTime + ScanLag
       /\ Planned(j) => mem[j].next > maxTriggerTime

TimelyInv == InTime /\ EntriesInTime /\ ScansInTime

\* an occurrence that a job owes (of the one expression there is) is planned, or its row,
\* or the scan's copy, is not past it
Owes(j, o) == since[j] # 0 /\ o \in Occ[row[j].cron] /\ since[j] <= o
IsPlanned(j, o) == <<j, o>> \in InRing \cup jobIds \/ o \in PushedOccs(j)
MayPlan(j, o) ==
  IF InScan(j) THEN mem[j].st = "RUNNING" /\ mem[j].next <= o
  ELSE row[j].st = "RUNNING" /\ row[j].next <= o

OwedByPresent == \A j \in Jobs : since[j] # 0 => Present(j) /\ Due(since[j])

\* a scan's copy is not past what the scan does not look at
CopiesReach ==
  \A j \in Jobs : InScan(j) =>
    /\ mem[j].st \in {"RUNNING", "STOPPED"}
    /\ \A o \in Occ[row[j].cron] :
         o > maxTriggerTime => mem[j].st = "RUNNING" /\ mem[j].next <= o

NoneLeftOut ==
  \A j \in Jobs : \A o \in Occ[row[j].cron] : Owes(j, o) => IsPlanned(j, o) \/ MayPlan(j, o)

SkipInv == OwedByPresent /\ CopiesReach /\ NoneLeftOut
=============================================================================

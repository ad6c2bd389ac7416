--------------------------- MODULE TriggerLogInv ---------------------------
(***************************************************************************)
(* Why the log's rows are right: each is written by the one thread that    *)
(* inserted it, by the one callback of its run and by the monitor; and why *)
(* a failed run is repeated once: what repeats it is at one place at a     *)
(* time, in the monitor's list, the pool's queue, a thread of the pool, or *)
(* a row of its own.                                                       *)
(***************************************************************************)
EXTENDS TriggerLog

\* a thread of the pool has a row of its own, and has not written its result
Writes(w) == worker[w].pc \in {"send", "wait", "result"}

\* what the monitor has selected and is not done with
Selected == monLogs \cup (IF monPc \in {"retry", "alarm", "update"} THEN {monLog} ELSE {})

\* ... or has not pushed yet
Unpushed == monLogs \cup (IF monPc = "retry" THEN {monLog} ELSE {})

\* p is a failed run with retries left, and n are left to what repeats it
Repeatable(p) == p \in DOMAIN log /\ log[p].trigger = Fail /\ log[p].retry > 0
RepeatedWith(p, n) == Repeatable(p) /\ n = log[p].retry - 1

\* what may repeat p: a push in the queue, a thread that has looked it up, a row
Queued(p)   == \E i \in DOMAIN queue : queue[i].parent = p
Inserting(p) == \E w \in Workers : worker[w].pc = "insert" /\ worker[w].parent = p
Inserted(p) == \E l \in DOMAIN log : log[l].parent = p
Planned(p) == Queued(p) \/ Inserting(p) \/ Inserted(p)

JobThere(l) == job[log[l].job].there

-----------------------------------------------------------------------------
\* The threads of the pool have different rows, and each is without a result, as is the
\* request of a row that is not sent.
RowsOwned ==
  /\ \A w \in Workers : Writes(w) =>
       /\ worker[w].log \in DOMAIN log /\ log[worker[w].log].trigger = 0
       /\ log[worker[w].log].parent = worker[w].parent
       /\ worker[w].pc = "send" => exec[worker[w].log] = "none"
       /\ worker[w].pc = "result" => worker[w].code # 0
  /\ \A v, w \in Workers : Writes(v) /\ Writes(w) /\ worker[v].log = worker[w].log => v = w

\* A run has one callback, when it is over, and no result before it.
OneCallback ==
  /\ \A c \in callbacks : /\ c.log \in DOMAIN log /\ exec[c.log] = "done"
                          /\ log[c.log].exec = 0
  /\ \A c, d \in callbacks : c.log = d.log => c = d
  /\ \A l \in DOMAIN log : exec[l] # "done" => log[l].exec = 0

\* Retries are known with the result, and what is retried has failed: what repeats a run
\* has one retry less.
Repeats ==
  /\ \A l \in DOMAIN log : log[l].retry > 0 => log[l].trigger # 0
  /\ \A l \in DOMAIN log : log[l].parent # 0 =>
       Repeatable(log[l].parent) /\ (log[l].trigger # 0 => RepeatedWith(log[l].parent, log[l].retry))
  /\ \A w \in Workers : worker[w].pc # "idle" /\ worker[w].parent # 0 =>
       RepeatedWith(worker[w].parent, worker[w].retry)
  /\ \A i \in DOMAIN queue : queue[i].parent # 0 =>
       /\ RepeatedWith(queue[i].parent, queue[i].retry)
       /\ queue[i].job = log[queue[i].parent].job
  /\ \A l \in retried : l \in DOMAIN log /\ log[l].trigger = Fail

\* The monitor's copies of rows may be old, but what they say of a failed run stays so.
Copies ==
  /\ \A e \in Selected :
       /\ e.id \in DOMAIN log /\ e.row.job = log[e.id].job
       /\ e.row.retry > 0 => Repeatable(e.id) /\ log[e.id].retry = e.row.retry
  /\ \A e, f \in Selected : e.id = f.id => e = f
  /\ monPc \in {"retry", "alarm", "update"} => monLog \notin monLogs
  /\ monPc \in {"retry", "alarm"} /\ job[monLog.row.job].there => monInfo.there
  /\ monPc = "update" => monStatus # "DEFAULT"
  /\ monPc = "sleep" => monLogs = {}

\* What repeats a run is in one place.
OnePlace ==
  /\ \A l, m \in DOMAIN log : log[l].parent = log[m].parent /\ log[l].parent # 0 => l = m
  /\ \A v, w \in Workers :
       /\ worker[v].pc = "insert" /\ worker[w].pc = "insert"
       /\ worker[v].parent = worker[w].parent /\ worker[v].parent # 0
       => v = w
  /\ \A p \in DOMAIN log : ~(Inserting(p) /\ Inserted(p))

\* As long as the job is there, that place may be the queue, or the list of the monitor, which
\* is done with a row, its alarm's status says so, before it selects it again.
OnePush ==
  /\ \A i, k \in DOMAIN queue :
       queue[i].parent = queue[k].parent /\ queue[i].parent # 0 /\ JobThere(queue[i].parent)
         => i = k
  /\ \A p \in DOMAIN log :
       JobThere(p) /\ Queued(p) => ~Inserting(p) /\ ~Inserted(p)
  /\ \A e \in Unpushed : e.row.retry > 0 /\ JobThere(e.id) => ~Planned(e.id)
  /\ \A p \in DOMAIN log : Planned(p) /\ JobThere(p) /\ log[p].there =>
       log[p].alarm # "DEFAULT" \/ (monPc \in {"alarm", "update"} /\ monLog.id = p)

TriggerIInv ==
  /\ TypeOK /\ RowsOwned /\ OneCallback /\ Repeats /\ Copies
  /\ fails = 0 => OnePlace /\ OnePush
=============================================================================

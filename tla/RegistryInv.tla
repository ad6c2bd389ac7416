---------------------------- MODULE RegistryInv ----------------------------
(***************************************************************************)
(* Why an app's list is never much older than its executors' heartbeats:   *)
(* a row is as old as the last write of its executor, a pass of the        *)
(* monitor begins by deleting the old rows and takes no longer than the    *)
(* monitor may be late, and between two passes it sleeps for Beat.         *)
(***************************************************************************)
EXTENDS Registry

\* the apps whose list the monitor has written last, and does write
Listed == {a \in Apps \ byUser : app[a].auto}

-----------------------------------------------------------------------------
\* The calls of an executor that the admin works on have different slots, and the row a call
\* has selected, if it is there, is its executor's.
CallsApart ==
  /\ \A c, d \in calls : c.node = d.node /\ c.slot = d.slot => c = d
  /\ \A c \in calls, r \in rows : c.row = r.id => r.node = c.node

\* An executor has no more rows, those about to be inserted included, than it can have calls:
\* a row is inserted only by a call that found none.
RowsBounded ==
  \E place \in [Ids -> Slots] :
    /\ \A r, s \in rows : r.node = s.node /\ place[r.id] = place[s.id] => r = s
    /\ \A r \in rows, c \in calls : r.node = c.node /\ c.step = "insert" => place[r.id] # c.slot

\* A row is as old as what was last heard of its executor, or older.
AgesTrue == \A r \in rows : r.age < RowCap => heard[r.node] <= r.age

\* Only an app's row has addresses.
NoRowNoList == \A a \in Apps : app[a].row # "there" => app[a].addresses = {}

\* What a pass of the monitor reads and writes is of executors heard within DeadTime, and the
\* pass's own time.
PassFresh ==
  /\ monPc # "sleep" => monTimer = 0
  /\ monPc \in {"apps", "executors"} => \A r \in rows : heard[r.node] <= DeadTime + monLate
  /\ monPc = "update" => \A n \in monExecutors : heard[n] <= DeadTime + monLate
  /\ monPc \in {"executors", "update"} =>
       \A a \in Listed \ monApps : \A n \in app[a].addresses : heard[n] <= DeadTime + monLate

\* What is listed was heard then, or in the pass before, a sleep ago, if that was completed;
\* if not, whatever pass is completed next makes it so.
ListsFresh ==
  ~refused =>
    \A a \in Listed : \A n \in app[a].addresses :
      heard[n] <= DeadTime + MonLag + (Beat - monTimer) + monLate

RegistryIInv ==
  TypeOK /\ CallsApart /\ RowsBounded /\ AgesTrue /\ NoRowNoList /\ PassFresh /\ ListsFresh
=============================================================================

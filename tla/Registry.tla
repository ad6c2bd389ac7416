------------------------------ MODULE Registry ------------------------------
(***************************************************************************)
(* How the admin knows the executors: their heartbeats                     *)
(* (RegistryNodeThread), the admin's registry and remove (AdminBizImpl),   *)
(* and the thread that deletes dead executors and writes the address lists *)
(* of the apps (ExecutorMonitorHelper), which users edit too (AppService). *)
(*                                                                         *)
(* Time is counted down: a thread has a timer, a row an age.               *)
(***************************************************************************)
EXTENDS Naturals, FiniteSets

CONSTANTS
  Nodes, Apps,
  AppOf,         \* the app each executor belongs to
  Others,        \* the apps that have other executors too, not modelled: a pass may find
                 \* one of them registered; the lists leave out their addresses
  Beat,          \* BEAT_TIME, in ticks
  DeadTime,      \* what deleteDead subtracts, in whole ticks: DEAD_TIME is 30,
                 \* taken from milliseconds, so that it is 0 if a tick is a second
  PostTimeout,   \* how long an executor waits for an answer
  MonLag,        \* how long the monitor may be late, its pass included
  MaxCalls,      \* bound: calls of one executor that the admin works on
  MaxRare,       \* bound: what is rare, together: posts that never arrive, statements
                 \* of a pass that fail, executors started again and edits of apps
  RowCap, Cap    \* bounds: the ages of rows, and heard, stop here

ASSUME RegistryAssumption ==
  /\ IsFiniteSet(Nodes) /\ AppOf \in [Nodes -> Apps] /\ Others \subseteq Apps
  /\ {Beat, PostTimeout, MaxCalls} \subseteq Nat \ {0}
  /\ {DeadTime, MonLag, MaxRare, RowCap, Cap} \subseteq Nat
  /\ RowCap > DeadTime /\ Cap > DeadTime + Beat + 2 * MonLag

VARIABLES
  up,                  \* each executor's flag running; FALSE too if it is not started
  pc, timer,           \* where its registry thread is
  calls,               \* the calls the admin works on
  rows,                \* job_executor
  app,                 \* job_app
  monPc, monTimer, monLate,    \* the monitor
  monApps, monExecutors,       \* and its locals: the apps still to update, the executors
  heard,               \* history: time since an executor's row was last written
  byUser,              \* history: the apps a user wrote after the monitor did
  refused,             \* history: an update was refused, and no pass has been completed since
  rare                 \* what was rare so far

nodeVars == <<up, pc, timer>>
monVars == <<monPc, monTimer, monLate, monApps, monExecutors>>
history == <<heard, byUser, refused>>
vars == <<nodeVars, calls, rows, app, monVars, history, rare>>

Ids == 1..((2 * MaxCalls + 1) * Cardinality(Nodes))
Slots == 1..MaxCalls

Row == [id: Ids, node: Nodes, age: 0..RowCap]
Call == [node: Nodes, slot: Slots, waited: BOOLEAN, row: Ids \cup {0},
         step: {"select", "insert", "update", "remove"}]
App == [row: {"none", "there", "deleted"}, auto: BOOLEAN, addresses: SUBSET Nodes]

RowsOf(n) == {r \in rows : r.node = n}
CallsOf(n) == {c \in calls : c.node = n}

Rarely == rare < MaxRare /\ rare' = rare + 1

-----------------------------------------------------------------------------
(* RegistryNodeThread, in executor n *)

nodeKeeps == <<rows, app, monVars, history>>

Goes(n, to, time) ==
  /\ pc' = [pc EXCEPT ![n] = to]
  /\ timer' = [timer EXCEPT ![n] = time]

\* mutant: an exception of a post ends the loop
EndsAfterPost(n) == Goes(n, "ended", 0)

\* after a post, answered or not, the thread sleeps if the flag stands
GoesOn(n) == IF up[n] THEN Goes(n, "sleep", Beat) ELSE Goes(n, "remove", 0)

\* a call reaches the admin
Arrives(n, step, waited) ==
  LET free == Slots \ {c.slot : c \in CallsOf(n)} IN
  \E s \in free :
    /\ \A t \in free : s <= t
    /\ calls' = calls \cup {[node |-> n, slot |-> s, waited |-> waited, row |-> 0, step |-> step]}

PostLost(n) ==
  /\ pc[n] = "post" /\ Rarely
  /\ GoesOn(n)
  /\ UNCHANGED <<nodeKeeps, up, calls>>

Post(n) ==
  /\ pc[n] = "post"
  /\ Arrives(n, "select", TRUE)
  /\ Goes(n, "wait", PostTimeout)
  /\ UNCHANGED <<nodeKeeps, up, rare>>

\* the thread has its answer when no call is left that it waits for
Answered(n) == \A c \in CallsOf(n) : ~c.waited

Answer(n) ==
  /\ pc[n] = "wait" /\ Answered(n)
  /\ GoesOn(n)
  /\ UNCHANGED <<nodeKeeps, up, calls, rare>>

\* the admin goes on with a call nobody waits for any more
Abandoned(n) == {IF c.node = n THEN [c EXCEPT !.waited = FALSE] ELSE c : c \in calls}

PostTimesOut(n) ==
  /\ pc[n] = "wait" /\ timer[n] = 0 /\ ~Answered(n)
  /\ calls' = Abandoned(n)
  /\ GoesOn(n)
  /\ UNCHANGED <<nodeKeeps, up, rare>>

\* the sleep is over, or stop has interrupted it
Wake(n) ==
  /\ pc[n] = "sleep" /\ (timer[n] = 0 \/ ~up[n])
  /\ IF up[n] THEN Goes(n, "post", 0) ELSE Goes(n, "remove", 0)
  /\ UNCHANGED <<nodeKeeps, up, calls, rare>>

\* the thread ends after it, answered or not: stop joins it
PostRemove(n) ==
  /\ pc[n] = "remove"
  /\ Goes(n, "ended", 0)
  /\ \/ Arrives(n, "remove", FALSE) /\ UNCHANGED rare
     \/ Rarely /\ UNCHANGED calls
  /\ UNCHANGED <<nodeKeeps, up>>

StopNode(n) ==
  /\ up[n]
  /\ up' = [up EXCEPT ![n] = FALSE]
  /\ UNCHANGED <<nodeKeeps, pc, timer, calls, rare>>

\* the process ends without a stop
Kill(n) ==
  /\ pc[n] # "ended"
  /\ up' = [up EXCEPT ![n] = FALSE]
  /\ Goes(n, "ended", 0)
  /\ calls' = Abandoned(n)
  /\ UNCHANGED <<nodeKeeps, rare>>

Start(n) ==
  /\ pc[n] = "ended" /\ ~up[n] /\ Rarely
  /\ up' = [up EXCEPT ![n] = TRUE]
  /\ Goes(n, "post", 0)
  /\ calls' = Abandoned(n)
  /\ UNCHANGED nodeKeeps

RegistryThread(n) ==
  PostLost(n) \/ Post(n) \/ Answer(n) \/ PostTimesOut(n) \/ Wake(n) \/ PostRemove(n)

-----------------------------------------------------------------------------
(* AdminBizImpl.registry and remove: a call is one or two statements *)

callKeeps == <<nodeVars, app, monVars, byUser, refused, rare>>

Without(c) == calls \ {c}

\* two rows of one address: selectOne throws, and the call fails
RegistrySelect(c) ==
  /\ c.step = "select"
  /\ LET found == RowsOf(c.node) IN
       calls' = Without(c) \cup
         CASE found = {} -> {[c EXCEPT !.step = "insert"]}
           [] Cardinality(found) = 1 ->
                {[c EXCEPT !.step = "update", !.row = (CHOOSE r \in found : TRUE).id]}
           [] OTHER -> {}
  /\ UNCHANGED <<callKeeps, rows, heard>>

\* mutant: ids are given again while a row has them
FirstId == 1

\* AUTO_INCREMENT: an id that no row has and no call knows
Fresh(i) == (\A r \in rows : i # r.id) /\ (\A c \in calls : i # c.row)
NewId == CHOOSE i \in Ids : Fresh(i)

RegistryInsert(c) ==
  /\ c.step = "insert"
  /\ rows' = rows \cup {[id |-> NewId, node |-> c.node, age |-> 0]}
  /\ heard' = [heard EXCEPT ![c.node] = 0]
  /\ calls' = Without(c)
  /\ UNCHANGED callKeeps

\* by id: nothing, if the row was deleted in between
RegistryUpdate(c) ==
  /\ c.step = "update"
  /\ rows' = {IF r.id = c.row THEN [r EXCEPT !.age = 0] ELSE r : r \in rows}
  /\ heard' = IF \E r \in rows : r.id = c.row THEN [heard EXCEPT ![c.node] = 0] ELSE heard
  /\ calls' = Without(c)
  /\ UNCHANGED callKeeps

Remove(c) ==
  /\ c.step = "remove"
  /\ rows' = rows \ RowsOf(c.node)
  /\ calls' = Without(c)
  /\ UNCHANGED <<callKeeps, heard>>

AdminBiz(c) == RegistrySelect(c) \/ RegistryInsert(c) \/ RegistryUpdate(c) \/ Remove(c)

-----------------------------------------------------------------------------
(* ExecutorMonitorHelper.run *)

monKeeps == <<nodeVars, calls, heard, rare>>

\* mutant: a row lives one tick longer
DeadOneLater(r) == r.age > DeadTime + 1

\* update_time <= deadDate; of rows exactly that old, the fraction decides
Dead(r) == r.age > DeadTime
MayBeDead(r) == r.age = DeadTime

MonDelete ==
  /\ monPc = "sleep" /\ monTimer = 0
  /\ monPc' = "apps"
  /\ \E young \in SUBSET {r \in rows : MayBeDead(r)} :
       rows' = {r \in rows : ~Dead(r)} \ young
  /\ UNCHANGED <<monKeeps, app, monTimer, monLate, monApps, monExecutors, byUser, refused>>

MonApps ==
  /\ monPc = "apps"
  /\ monPc' = "executors"
  /\ monApps' = {a \in Apps : app[a].row = "there" /\ app[a].auto}
  /\ UNCHANGED <<monKeeps, rows, app, monTimer, monLate, monExecutors, byUser, refused>>

MonExecutors ==
  /\ monPc = "executors"
  /\ monPc' = "update"
  /\ monExecutors' = {r.node : r \in rows}
  /\ UNCHANGED <<monKeeps, rows, app, monTimer, monLate, monApps, byUser, refused>>

ExecutorsOf(a) == {n \in monExecutors : AppOf[n] = a}

\* there is a row to update, and no executor among those modelled to write into it
NoneFor(a) == app[a].row = "there" /\ ExecutorsOf(a) = {}

\* by id: nothing, if the app was deleted
MonUpdate ==
  /\ monPc = "update"
  /\ \E a \in monApps :
       /\ NoneFor(a) => a \in Others
       /\ monApps' = monApps \ {a}
       /\ app' = [app EXCEPT ![a].addresses =
                    IF app[a].row = "there" THEN ExecutorsOf(a) ELSE @]
       /\ byUser' = byUser \ {a}
  /\ UNCHANGED <<monKeeps, rows, monPc, monTimer, monLate, monExecutors, refused>>

\* the pass's locals are gone
NoPass == monPc' = "sleep" /\ monApps' = {} /\ monExecutors' = {}

\* of no executors the addresses are NULL, which the column must not be: the update is refused.
\* The pass ends, the other apps are not written, and the next begins without a sleep
MonRefused ==
  /\ monPc = "update"
  /\ \E a \in monApps : NoneFor(a)
  /\ NoPass /\ monTimer' = 0 /\ monLate' = 0
  /\ refused' = TRUE
  /\ UNCHANGED <<monKeeps, rows, app, byUser>>

MonSleep ==
  /\ monPc = "update" /\ monApps = {}
  /\ NoPass /\ monTimer' = Beat /\ monLate' = 0
  /\ refused' = FALSE
  /\ UNCHANGED <<monKeeps, rows, app, byUser>>

Monitor == MonDelete \/ MonApps \/ MonExecutors \/ MonUpdate \/ MonRefused \/ MonSleep

\* a statement of the pass fails: the loop begins again, without a sleep
MonException ==
  /\ monPc # "sleep" /\ Rarely
  /\ NoPass /\ monTimer' = 0
  /\ UNCHANGED <<nodeVars, calls, rows, app, monLate, history>>

-----------------------------------------------------------------------------
(* AppService: save, of a new row or of the whole row a form shows, and delete *)

appKeeps == <<nodeVars, calls, rows, monVars, heard, refused>>

SaveApp(a) ==
  /\ app[a].row # "deleted" /\ Rarely
  /\ \E auto \in BOOLEAN, addresses \in SUBSET Nodes :
       app' = [app EXCEPT ![a] = [row |-> "there", auto |-> auto, addresses |-> addresses]]
  /\ byUser' = byUser \cup {a}
  /\ UNCHANGED appKeeps

DeleteApp(a) ==
  /\ app[a].row = "there" /\ Rarely
  /\ app' = [app EXCEPT ![a] = [row |-> "deleted", auto |-> TRUE, addresses |-> {}]]
  /\ UNCHANGED <<appKeeps, byUser>>

-----------------------------------------------------------------------------
Older(age, cap) == IF age = cap THEN cap ELSE age + 1
Down(time) == IF time = 0 THEN 0 ELSE time - 1

\* An executor's thread may be late without bound, the monitor by MonLag
Tick ==
  /\ IF monPc = "sleep" /\ monTimer > 0
     THEN monTimer' = monTimer - 1 /\ UNCHANGED monLate
     ELSE monLate < MonLag /\ monLate' = monLate + 1 /\ UNCHANGED monTimer
  /\ timer' = [n \in Nodes |-> Down(timer[n])]
  /\ rows' = {[r EXCEPT !.age = Older(@, RowCap)] : r \in rows}
  /\ heard' = [n \in Nodes |-> Older(heard[n], Cap)]
  /\ UNCHANGED <<up, pc, calls, app, monPc, monApps, monExecutors, byUser, refused, rare>>

Init ==
  /\ up = [n \in Nodes |-> TRUE]
  /\ pc = [n \in Nodes |-> "post"] /\ timer = [n \in Nodes |-> 0]
  /\ calls = {} /\ rows = {}
  /\ app \in [Apps -> [row: {"none", "there"}, auto: {TRUE}, addresses: {{}}]]
  /\ monPc = "sleep" /\ monTimer \in 0..Beat /\ monLate = 0
  /\ monApps = {} /\ monExecutors = {}
  /\ heard = [n \in Nodes |-> Cap] /\ byUser = {} /\ refused = FALSE
  /\ rare = 0

Next ==
  \/ \E n \in Nodes : RegistryThread(n) \/ StopNode(n) \/ Kill(n) \/ Start(n)
  \/ \E c \in calls : AdminBiz(c)
  \/ Monitor \/ MonException
  \/ \E a \in Apps : SaveApp(a) \/ DeleteApp(a)
  \/ Tick

Spec == Init /\ [][Next]_vars

\* Threads and statements go on; the clock does too.
FairSpec ==
  /\ Spec
  /\ WF_vars(Tick) /\ WF_vars(Monitor)
  /\ \A n \in Nodes :
       /\ WF_vars(RegistryThread(n))
       /\ WF_vars(\E c \in CallsOf(n) : AdminBiz(c))

-----------------------------------------------------------------------------
(* Properties *)

TypeOK ==
  /\ up \in [Nodes -> BOOLEAN]
  /\ pc \in [Nodes -> {"post", "wait", "sleep", "remove", "ended"}]
  /\ timer \in [Nodes -> 0..(Beat + PostTimeout)]
  /\ calls \subseteq Call
  /\ rows \subseteq Row /\ \A r, s \in rows : r.id = s.id => r = s
  /\ app \in [Apps -> App]
  /\ monPc \in {"sleep", "apps", "executors", "update"}
  /\ monTimer \in 0..Beat /\ monLate \in 0..MonLag
  /\ monApps \subseteq Apps /\ monExecutors \subseteq Nodes
  /\ heard \in [Nodes -> 0..Cap] /\ byUser \subseteq Apps /\ refused \in BOOLEAN
  /\ rare \in 0..MaxRare

\* As long as each app has an executor, so that no update is refused, one that is not heard
\* from leaves its app's list within DeadTime, a pass's period and the monitor's delays,
\* however it ended, whatever calls of its are still under way, and whichever rows its
\* address has.  After refusals the first pass that is completed sets all lists right.
ListedWereHeard ==
  ~refused =>
    \A a \in Apps \ byUser : \A n \in app[a].addresses :
      app[a].auto => heard[n] <= DeadTime + Beat + 2 * MonLag

\* An executor that stays up is registered again and again: not a lost post, a
\* late call, two rows of its address or a row deleted under its update keeps it out.
LiveRegistered == \A n \in Nodes : []<>(up[n] => RowsOf(n) # {})

\* CoreConstant, DEAD_TIME: "规定 心跳三次失败，则认定主机死亡", an executor is dead when
\* three heartbeats have failed; and the monitor's pass, "删除不活跃的执行器", "更新应用中的执行器地址":
\* it deletes the inactive executors and updates the addresses of the apps.  So one that has
\* ended is not listed for longer than that, a pass's period and the monitor's delays.
DeadAreUnlisted ==
  \A a \in Apps \ byUser : \A n \in app[a].addresses :
    app[a].auto /\ pc[n] = "ended" => heard[n] <= 3 * Beat + Beat + 2 * MonLag
=============================================================================

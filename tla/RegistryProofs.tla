--------------------------- MODULE RegistryProofs ---------------------------
(* What holds of Registry for every value of its constants *)
EXTENDS RegistryInv, Integers, FiniteSetTheorems, TLAPS

LEMMA ConstantsAre ==
  /\ IsFiniteSet(Nodes) /\ AppOf \in [Nodes -> Apps]
  /\ Beat \in Nat /\ Beat > 0 /\ PostTimeout \in Nat /\ MaxCalls \in Nat /\ MaxCalls > 0
  /\ DeadTime \in Nat /\ MonLag \in Nat /\ MaxRare \in Nat
  /\ RowCap \in Nat /\ Cap \in Nat /\ RowCap > DeadTime
BY RegistryAssumption

-----------------------------------------------------------------------------
(* Ids, and what uses them *)

LEMMA IdsAre ==
  /\ Cardinality(Nodes) \in Nat /\ Ids \subseteq Nat /\ 0 \notin Ids
  /\ IsFiniteSet(Ids) /\ Cardinality(Ids) = (2 * MaxCalls + 1) * Cardinality(Nodes)
<1> DEFINE k == Cardinality(Nodes)
           i == (2 * MaxCalls + 1) * k
<1>1. k \in Nat
  BY ConstantsAre, FS_CardinalityType
<1>2. i \in Nat
  BY <1>1, ConstantsAre
<1> HIDE DEF i
<1>3. IsFiniteSet(1..i) /\ Cardinality(1..i) = i
  BY <1>2, FS_Interval
<1> QED
  BY <1>1, <1>2, <1>3 DEF Ids, i

\* Where the users of ids are: a place of a row, or of a call.  There are fewer than ids.
LEMMA FewerPlaces ==
  ASSUME Nodes # {}
  PROVE  LET T == Nodes \X (1..(2 * MaxCalls))
         IN  IsFiniteSet(T) /\ Cardinality(T) < Cardinality(Ids)
<1> DEFINE k == Cardinality(Nodes)
           m == 2 * MaxCalls
<1>1. k \in Nat /\ k # 0
  BY ConstantsAre, FS_CardinalityType, FS_EmptySet
<1>2. m \in Nat
  BY ConstantsAre
<1> HIDE DEF k, m
<1>3. IsFiniteSet(1..m) /\ Cardinality(1..m) = m
  BY <1>2, FS_Interval
<1>4. IsFiniteSet(Nodes \X (1..m)) /\ Cardinality(Nodes \X (1..m)) = k * m
  BY <1>3, ConstantsAre, FS_Product DEF k
<1>5. Cardinality(Ids) = (m + 1) * k
  BY IdsAre DEF k, m
<1>6. k * m < (m + 1) * k
  BY <1>1, <1>2
<1> QED
  BY <1>4, <1>5, <1>6 DEF m

\* When a call inserts a row there is an id that no row has and no call knows.
LEMMA FreshId ==
  ASSUME TypeOK, CallsApart, RowsBounded, NEW call \in calls
  PROVE  NewId \in Ids /\ Fresh(NewId)
<1> SUFFICES ASSUME \A i \in Ids : ~Fresh(i) PROVE FALSE
  BY DEF NewId
<1>1. PICK place \in [Ids -> Slots] :
        \A r, s \in rows : r.node = s.node /\ place[r.id] = place[s.id] => r = s
  BY DEF RowsBounded
<1>2. /\ \A r \in rows : r.node \in Nodes /\ r.id \in Ids
      /\ \A c \in calls : c.node \in Nodes /\ c.slot \in Slots
  BY DEF TypeOK, Row, Call
<1> DEFINE T == Nodes \X (1..(2 * MaxCalls))
           HasRow(i) == \E r \in rows : r.id = i
           RowOf(i) == CHOOSE r \in rows : r.id = i
           CallOf(i) == CHOOSE c \in calls : c.row = i
           f == [i \in Ids |-> IF HasRow(i) THEN <<RowOf(i).node, place[i]>>
                                            ELSE <<CallOf(i).node, MaxCalls + CallOf(i).slot>>]
<1>3. Nodes # {}
  BY <1>2
<1>4. Slots \subseteq 1..(2 * MaxCalls)
      /\ \A s \in Slots : MaxCalls + s \in 1..(2 * MaxCalls) /\ MaxCalls + s \notin Slots
  BY ConstantsAre DEF Slots
<1>5. ASSUME NEW i \in Ids, HasRow(i)
      PROVE  RowOf(i) \in rows /\ RowOf(i).id = i
  BY <1>5
<1>6. ASSUME NEW i \in Ids, ~HasRow(i)
      PROVE  CallOf(i) \in calls /\ CallOf(i).row = i
  BY <1>6 DEF Fresh
<1> HIDE DEF RowOf, CallOf, HasRow
<1>7. f \in [Ids -> T]
  <2>1. ASSUME NEW i \in Ids
        PROVE  (IF HasRow(i) THEN <<RowOf(i).node, place[i]>>
                             ELSE <<CallOf(i).node, MaxCalls + CallOf(i).slot>>) \in T
    BY <1>2, <1>4, <1>5, <1>6
  <2> QED
    BY <2>1
<1>8. IsFiniteSet(Ids) /\ IsFiniteSet(T) /\ Cardinality(T) < Cardinality(Ids)
  BY <1>3, FewerPlaces, IdsAre
<1>9. \A i \in Ids :
        /\ HasRow(i) => f[i] = <<RowOf(i).node, place[i]>>
        /\ ~HasRow(i) => f[i] = <<CallOf(i).node, MaxCalls + CallOf(i).slot>>
  OBVIOUS
<1> HIDE DEF f, T
<1>10. PICK i, j \in Ids : i # j /\ f[i] = f[j]
  BY <1>7, <1>8, FS_PigeonHole
<1>11. CASE HasRow(i) /\ HasRow(j)
  <2>1. RowOf(i).node = RowOf(j).node /\ place[i] = place[j]
    <3>1. <<RowOf(i).node, place[i]>> = <<RowOf(j).node, place[j]>>
      BY <1>9, <1>10, <1>11, Zenon
    <3> QED
      BY <3>1
  <2>2. RowOf(i) = RowOf(j)
    BY <1>1, <1>5, <1>11, <2>1
  <2> QED
    BY <1>5, <1>10, <1>11, <2>2
<1>12. CASE ~HasRow(i) /\ ~HasRow(j)
  <2>1. CallOf(i).node = CallOf(j).node /\ MaxCalls + CallOf(i).slot = MaxCalls + CallOf(j).slot
    <3>1. <<CallOf(i).node, MaxCalls + CallOf(i).slot>> = <<CallOf(j).node, MaxCalls + CallOf(j).slot>>
      BY <1>9, <1>10, <1>12, Zenon
    <3> QED
      BY <3>1
  <2>2. CallOf(i) \in calls /\ CallOf(j) \in calls
    BY <1>6, <1>12
  <2>3. CallOf(i).slot = CallOf(j).slot
    BY <1>2, <2>1, <2>2, ConstantsAre DEF Slots
  <2>4. CallOf(i) = CallOf(j)
    BY <2>1, <2>2, <2>3 DEF CallsApart
  <2> QED
    BY <1>6, <1>10, <1>12, <2>4
<1>13. \A x, y \in Ids : HasRow(x) /\ ~HasRow(y) => f[x] # f[y]
  <2> SUFFICES ASSUME NEW x \in Ids, NEW y \in Ids, HasRow(x), ~HasRow(y), f[x] = f[y]
               PROVE  FALSE
    OBVIOUS
  <2>1. place[x] = MaxCalls + CallOf(y).slot
    <3>1. <<RowOf(x).node, place[x]>> = <<CallOf(y).node, MaxCalls + CallOf(y).slot>>
      BY <1>9, Zenon
    <3> QED
      BY <3>1
  <2>2. place[x] \in Slots /\ CallOf(y).slot \in Slots
    BY <1>2, <1>6
  <2> QED
    BY <1>4, <2>1, <2>2
<1> QED
  BY <1>10, <1>11, <1>12, <1>13

-----------------------------------------------------------------------------
(* Types *)

LEMMA InitType == Init => TypeOK
<1> SUFFICES ASSUME Init PROVE TypeOK
  OBVIOUS
<1>1. app \in [Apps -> App]
  BY DEF Init, App
<1>2. timer \in [Nodes -> 0..(Beat + PostTimeout)] /\ heard \in [Nodes -> 0..Cap]
      /\ monTimer \in 0..Beat
  BY ConstantsAre DEF Init
<1>3. monLate \in 0..MonLag /\ rare \in 0..MaxRare
  BY ConstantsAre DEF Init
<1> QED
  BY <1>1, <1>2, <1>3 DEF Init, TypeOK

\* The registry thread of an executor goes on.
LEMMA GoesTyped ==
  ASSUME TypeOK, NEW n \in Nodes,
         \E to \in {"post", "wait", "sleep", "remove", "ended"}, t \in {0, Beat, PostTimeout} :
           Goes(n, to, t)
  PROVE  /\ pc' \in [Nodes -> {"post", "wait", "sleep", "remove", "ended"}]
         /\ timer' \in [Nodes -> 0..(Beat + PostTimeout)]
<1>1. {0, Beat, PostTimeout} \subseteq 0..(Beat + PostTimeout)
  BY ConstantsAre
<1> QED
  BY <1>1 DEF TypeOK, Goes

LEMMA GoesOnGoes ==
  ASSUME NEW n \in Nodes, GoesOn(n)
  PROVE  \E to \in {"post", "wait", "sleep", "remove", "ended"}, t \in {0, Beat, PostTimeout} :
           Goes(n, to, t)
BY DEF GoesOn

LEMMA ArrivesTyped ==
  ASSUME TypeOK, NEW n \in Nodes, NEW step \in {"select", "remove"}, NEW waited \in BOOLEAN,
         Arrives(n, step, waited)
  PROVE  /\ calls' \subseteq Call
         /\ \E c \in Call : /\ calls' = calls \cup {c} /\ c.node = n /\ c.row = 0 /\ c.step = step
                            /\ \A d \in calls : d.node = n => d.slot # c.slot
<1>1. PICK s \in Slots \ {d.slot : d \in CallsOf(n)} :
        calls' = calls \cup {[node |-> n, slot |-> s, waited |-> waited, row |-> 0, step |-> step]}
  BY DEF Arrives
<1> DEFINE c == [node |-> n, slot |-> s, waited |-> waited, row |-> 0, step |-> step]
<1>2. c \in Call /\ c.node = n /\ c.row = 0 /\ c.step = step /\ c.slot = s
  BY DEF Call
<1>3. \A d \in calls : d.node = n => d.slot # s
  BY <1>1 DEF CallsOf
<1> QED
  BY <1>1, <1>2, <1>3 DEF TypeOK

\* A call nobody waits for any more is the call it was.
LEMMA AbandonedTyped ==
  ASSUME TypeOK, NEW n
  PROVE  /\ Abandoned(n) \subseteq Call
         /\ \A d \in Abandoned(n) : \E c \in calls :
              /\ d.node = c.node /\ d.slot = c.slot /\ d.row = c.row /\ d.step = c.step
              /\ d = IF c.node = n THEN [c EXCEPT !.waited = FALSE] ELSE c
<1>1. \A c \in calls : c \in Call
  BY DEF TypeOK
<1>2. ASSUME NEW c \in Call
      PROVE  /\ [c EXCEPT !.waited = FALSE] \in Call
             /\ [c EXCEPT !.waited = FALSE].node = c.node
             /\ [c EXCEPT !.waited = FALSE].slot = c.slot
             /\ [c EXCEPT !.waited = FALSE].row = c.row
             /\ [c EXCEPT !.waited = FALSE].step = c.step
  BY DEF Call
<1> QED
  BY <1>1, <1>2 DEF Abandoned

\* What a call does once it has selected: it inserts a row, if there is none, or updates the one
\* there is, or fails.
LEMMA SelectTyped ==
  ASSUME TypeOK, NEW c \in calls, RegistrySelect(c)
  PROVE  /\ calls' \subseteq Call
         /\ \/ calls' = Without(c)
            \/ \E d \in Call :
                 /\ calls' = Without(c) \cup {d} /\ d.node = c.node /\ d.slot = c.slot
                 /\ \/ d.step = "insert" /\ d.row = c.row /\ RowsOf(c.node) = {}
                    \/ d.step = "update" /\ \E r \in rows : r.node = c.node /\ d.row = r.id
<1> DEFINE found == RowsOf(c.node)
           e == [c EXCEPT !.step = "insert"]
           u == [c EXCEPT !.step = "update", !.row = (CHOOSE r \in found : TRUE).id]
<1>1. c \in Call /\ calls \subseteq Call /\ rows \subseteq Row
  BY DEF TypeOK
<1>2. Cardinality({}) # 1
  BY FS_EmptySet
<1>3. \/ found = {} /\ calls' = Without(c) \cup {e}
      \/ found # {} /\ calls' = Without(c) \cup {u}
      \/ calls' = Without(c)
  BY <1>2 DEF RegistrySelect
<1>4. e \in Call /\ e.node = c.node /\ e.slot = c.slot /\ e.step = "insert" /\ e.row = c.row
  BY <1>1 DEF Call
<1>5. ASSUME found # {}
      PROVE  /\ u \in Call /\ u.node = c.node /\ u.slot = c.slot /\ u.step = "update"
             /\ \E r \in rows : r.node = c.node /\ u.row = r.id
  <2>1. PICK r : r = (CHOOSE q \in found : TRUE) /\ r \in found
    BY <1>5
  <2>2. r \in rows /\ r.node = c.node /\ r.id \in Ids
    BY <1>1, <2>1 DEF RowsOf, Row
  <2>3. u = [c EXCEPT !.step = "update", !.row = r.id]
    BY <2>1
  <2> QED
    BY <1>1, <2>2, <2>3 DEF Call
<1> HIDE DEF e, u
<1> QED
  BY <1>1, <1>3, <1>4, <1>5 DEF Without

LEMMA InsertTyped ==
  ASSUME TypeOK, CallsApart, RowsBounded, NEW c \in calls, RegistryInsert(c)
  PROVE  /\ rows' \subseteq Row /\ \A r, s \in rows' : r.id = s.id => r = s
         /\ heard' \in [Nodes -> 0..Cap] /\ heard'[c.node] = 0
         /\ \A n \in Nodes : n # c.node => heard'[n] = heard[n]
         /\ \E r \in Row : /\ rows' = rows \cup {r} /\ r.node = c.node /\ r.age = 0
                           /\ \A s \in rows : s.id # r.id
                           /\ \A d \in calls : d.row # r.id
<1> DEFINE r == [id |-> NewId, node |-> c.node, age |-> 0]
<1>1. c.node \in Nodes /\ 0 \in 0..RowCap /\ 0 \in 0..Cap
  BY ConstantsAre DEF TypeOK, Call
<1>2. NewId \in Ids /\ Fresh(NewId)
  BY FreshId
<1>3. r \in Row /\ r.id = NewId /\ r.node = c.node /\ r.age = 0
  BY <1>1, <1>2 DEF Row
<1>4. rows' = rows \cup {r} /\ heard' = [heard EXCEPT ![c.node] = 0]
  BY DEF RegistryInsert
<1>5. (\A s \in rows : s.id # r.id) /\ (\A d \in calls : d.row # r.id)
  BY <1>2, <1>3 DEF Fresh
<1> HIDE DEF r
<1>6. rows' \subseteq Row /\ \A q, s \in rows' : q.id = s.id => q = s
  BY <1>3, <1>4, <1>5 DEF TypeOK
<1>7. /\ heard' \in [Nodes -> 0..Cap] /\ heard'[c.node] = 0
      /\ \A n \in Nodes : n # c.node => heard'[n] = heard[n]
  BY <1>1, <1>4 DEF TypeOK
<1> QED
  BY <1>3, <1>4, <1>5, <1>6, <1>7

LEMMA UpdateTyped ==
  ASSUME TypeOK, CallsApart, NEW c \in calls, RegistryUpdate(c)
  PROVE  /\ rows' \subseteq Row /\ \A r, s \in rows' : r.id = s.id => r = s
         /\ heard' \in [Nodes -> 0..Cap] /\ \A n \in Nodes : heard'[n] <= heard[n]
         /\ \A r \in rows' : \E s \in rows :
              /\ r.id = s.id /\ r.node = s.node
              /\ r = s \/ (r.age = 0 /\ heard'[r.node] = 0)
<1>1. c.node \in Nodes /\ rows \subseteq Row /\ 0 \in 0..RowCap /\ 0 \in 0..Cap
  BY ConstantsAre DEF TypeOK, Call
<1>2. ASSUME NEW s \in rows
      PROVE  /\ [s EXCEPT !.age = 0] \in Row /\ [s EXCEPT !.age = 0].id = s.id
             /\ [s EXCEPT !.age = 0].node = s.node /\ [s EXCEPT !.age = 0].age = 0
  BY <1>1 DEF Row
<1>3. rows' = {IF r.id = c.row THEN [r EXCEPT !.age = 0] ELSE r : r \in rows}
  BY DEF RegistryUpdate
<1>4. \A r \in rows' : \E s \in rows :
        /\ r.id = s.id /\ r.node = s.node /\ r \in Row
        /\ r = IF s.id = c.row THEN [s EXCEPT !.age = 0] ELSE s
  BY <1>1, <1>2, <1>3
<1>5. \A r, s \in rows' : r.id = s.id => r = s
  BY <1>4 DEF TypeOK
<1>6. /\ heard' \in [Nodes -> 0..Cap] /\ \A n \in Nodes : heard'[n] <= heard[n]
      /\ (\E r \in rows : r.id = c.row) => heard'[c.node] = 0
  BY <1>1, ConstantsAre DEF RegistryUpdate, TypeOK
<1>7. \A s \in rows : s.id = c.row => s.node = c.node
  BY DEF CallsApart
<1>8. ASSUME NEW r \in rows'
      PROVE  \E s \in rows : /\ r.id = s.id /\ r.node = s.node
                             /\ r = s \/ (r.age = 0 /\ heard'[r.node] = 0)
  <2>1. PICK s \in rows : /\ r.id = s.id /\ r.node = s.node
                          /\ r = IF s.id = c.row THEN [s EXCEPT !.age = 0] ELSE s
    BY <1>4
  <2>2. CASE s.id = c.row
    BY <1>2, <1>6, <1>7, <2>1, <2>2
  <2>3. CASE s.id # c.row
    BY <2>1, <2>3
  <2> QED
    BY <2>2, <2>3
<1> QED
  BY <1>4, <1>5, <1>6, <1>8

LEMMA TickTyped ==
  ASSUME TypeOK, Tick
  PROVE  /\ rows' \subseteq Row /\ \A r, s \in rows' : r.id = s.id => r = s
         /\ \A r \in rows' : \E s \in rows :
              r.id = s.id /\ r.node = s.node /\ (r.age = RowCap \/ r.age = s.age + 1)
         /\ heard' \in [Nodes -> 0..Cap] /\ \A n \in Nodes : heard'[n] <= heard[n] + 1
         /\ timer' \in [Nodes -> 0..(Beat + PostTimeout)]
         /\ monTimer' \in 0..Beat /\ monLate' \in 0..MonLag
         /\ \/ monPc = "sleep" /\ monTimer' = monTimer - 1 /\ monLate' = monLate
            \/ monTimer' = monTimer /\ monLate' = monLate + 1
<1> DEFINE O(s) == [s EXCEPT !.age = Older(s.age, RowCap)]
<1>1. ASSUME NEW s \in Row
      PROVE  /\ O(s) \in Row /\ O(s).id = s.id /\ O(s).node = s.node
             /\ O(s).age = RowCap \/ O(s).age = s.age + 1
  <2>1. s.age \in 0..RowCap
    BY <1>1 DEF Row
  <2>2. Older(s.age, RowCap) \in 0..RowCap
        /\ (Older(s.age, RowCap) = RowCap \/ Older(s.age, RowCap) = s.age + 1)
    BY <2>1, ConstantsAre DEF Older
  <2> QED
    BY <1>1, <2>2 DEF Row
<1>2. rows' = {O(r) : r \in rows} /\ rows \subseteq Row
  BY DEF Tick, TypeOK
<1> HIDE DEF O
<1>3. /\ rows' \subseteq Row
      /\ \A r \in rows' : \E s \in rows :
           r = O(s) /\ r.id = s.id /\ r.node = s.node /\ (r.age = RowCap \/ r.age = s.age + 1)
  BY <1>1, <1>2
<1>4. \A r, s \in rows' : r.id = s.id => r = s
  BY <1>3 DEF TypeOK
<1>5. \A n \in Nodes : /\ heard'[n] = Older(heard[n], Cap) /\ timer'[n] = Down(timer[n])
                       /\ heard[n] \in 0..Cap /\ timer[n] \in 0..(Beat + PostTimeout)
  BY DEF Tick, TypeOK
<1>6. \A n \in Nodes : /\ heard'[n] \in 0..Cap /\ heard'[n] <= heard[n] + 1
                       /\ timer'[n] \in 0..(Beat + PostTimeout)
  BY <1>5, ConstantsAre DEF Older, Down
<1>7. /\ heard' \in [Nodes -> 0..Cap] /\ timer' \in [Nodes -> 0..(Beat + PostTimeout)]
  BY <1>6 DEF Tick
<1>8. /\ monTimer' \in 0..Beat /\ monLate' \in 0..MonLag
      /\ \/ monPc = "sleep" /\ monTimer' = monTimer - 1 /\ monLate' = monLate
         \/ monTimer' = monTimer /\ monLate' = monLate + 1
  BY ConstantsAre DEF Tick, TypeOK
<1> QED
  BY <1>3, <1>4, <1>6, <1>7, <1>8

LEMMA RareTyped == ASSUME TypeOK, Rarely PROVE rare' \in 0..MaxRare
BY ConstantsAre DEF TypeOK, Rarely

LEMMA NodeTyped ==
  ASSUME TypeOK, NEW n \in Nodes,
         RegistryThread(n) \/ StopNode(n) \/ Kill(n) \/ Start(n)
  PROVE  /\ UNCHANGED <<rows, app, monVars, history>>
         /\ \/ UNCHANGED calls \/ calls' = Abandoned(n)
            \/ \E step \in {"select", "remove"}, waited \in BOOLEAN : Arrives(n, step, waited)
         /\ up' \in [Nodes -> BOOLEAN]
         /\ pc' \in [Nodes -> {"post", "wait", "sleep", "remove", "ended"}]
         /\ timer' \in [Nodes -> 0..(Beat + PostTimeout)]
         /\ rare' \in 0..MaxRare
<1>1. UNCHANGED <<rows, app, monVars, history>>
  BY DEF RegistryThread, PostLost, Post, Answer, PostTimesOut, Wake, PostRemove, StopNode, Kill,
         Start, nodeKeeps
<1>2. \/ UNCHANGED calls \/ calls' = Abandoned(n)
      \/ \E step \in {"select", "remove"}, waited \in BOOLEAN : Arrives(n, step, waited)
  <2>1. CASE Post(n) \/ PostRemove(n)
    <3>1. UNCHANGED calls \/ Arrives(n, "select", TRUE) \/ Arrives(n, "remove", FALSE)
      BY <2>1 DEF Post, PostRemove
    <3> QED
      BY <3>1
  <2>2. CASE PostLost(n) \/ Answer(n) \/ PostTimesOut(n) \/ Wake(n) \/ StopNode(n) \/ Kill(n) \/ Start(n)
    BY <2>2 DEF PostLost, Answer, PostTimesOut, Wake, StopNode, Kill, Start, nodeKeeps
  <2> QED
    BY <2>1, <2>2 DEF RegistryThread
<1>3. rare' \in 0..MaxRare
  <2>1. rare' = rare \/ Rarely
    BY DEF RegistryThread, PostLost, Post, Answer, PostTimesOut, Wake, PostRemove, StopNode, Kill,
           Start
  <2> QED
    BY <2>1, RareTyped DEF TypeOK
<1>4. up' \in [Nodes -> BOOLEAN]
  BY DEF TypeOK, RegistryThread, PostLost, Post, Answer, PostTimesOut, Wake, PostRemove, StopNode,
         Kill, Start
<1>5. \/ UNCHANGED <<pc, timer>>
      \/ \E to \in {"post", "wait", "sleep", "remove", "ended"}, t \in {0, Beat, PostTimeout} :
           Goes(n, to, t)
  <2>1. CASE PostLost(n) \/ Answer(n) \/ PostTimesOut(n)
    BY <2>1, GoesOnGoes DEF PostLost, Answer, PostTimesOut
  <2>2. CASE Post(n) \/ Wake(n) \/ PostRemove(n) \/ Kill(n) \/ Start(n) \/ StopNode(n)
    BY <2>2 DEF Post, Wake, PostRemove, Kill, Start, StopNode
  <2> QED
    BY <2>1, <2>2 DEF RegistryThread
<1>6. /\ pc' \in [Nodes -> {"post", "wait", "sleep", "remove", "ended"}]
      /\ timer' \in [Nodes -> 0..(Beat + PostTimeout)]
  BY <1>5, GoesTyped DEF TypeOK
<1> QED
  BY <1>1, <1>2, <1>3, <1>4, <1>6

LEMMA MonitorMoves ==
  ASSUME TypeOK, Monitor \/ MonException
  PROVE  /\ UNCHANGED <<nodeVars, calls, heard>>
         /\ rows' \subseteq rows /\ byUser' \subseteq byUser
         /\ app' \in [Apps -> App] /\ rare' \in 0..MaxRare /\ refused' \in BOOLEAN
         /\ monPc' \in {"sleep", "apps", "executors", "update"}
         /\ monTimer' \in 0..Beat /\ monLate' \in 0..MonLag
         /\ monApps' \subseteq Apps /\ monExecutors' \subseteq Nodes
<1>1. CASE MonDelete
  BY <1>1 DEF MonDelete, monKeeps, TypeOK
<1>2. CASE MonApps
  BY <1>2 DEF MonApps, monKeeps, TypeOK
<1>3. CASE MonExecutors
  <2>1. monExecutors' \subseteq Nodes
    BY <1>3 DEF MonExecutors, TypeOK, Row
  <2> QED
    BY <1>3, <2>1 DEF MonExecutors, monKeeps, TypeOK
<1>4. CASE MonUpdate
  <2>1. PICK a \in monApps :
          /\ monApps' = monApps \ {a} /\ byUser' = byUser \ {a}
          /\ app' = [app EXCEPT ![a].addresses =
                       IF app[a].row = "there" THEN ExecutorsOf(a) ELSE @]
    BY <1>4 DEF MonUpdate
  <2>2. a \in Apps /\ app[a] \in App
    BY DEF TypeOK
  <2>3. (IF app[a].row = "there" THEN ExecutorsOf(a) ELSE app[a].addresses) \in SUBSET Nodes
    BY <2>2 DEF TypeOK, App, ExecutorsOf
  <2>4. app' \in [Apps -> App]
    BY <2>1, <2>2, <2>3 DEF TypeOK, App
  <2>5. /\ monPc = "update"
        /\ UNCHANGED <<monKeeps, rows, monPc, monTimer, monLate, monExecutors, refused>>
    BY <1>4 DEF MonUpdate
  <2> QED
    BY <2>1, <2>4, <2>5 DEF monKeeps, TypeOK
<1>5. CASE MonSleep \/ MonRefused
  <2>1. Beat \in 0..Beat /\ 0 \in 0..Beat /\ 0 \in 0..MonLag
    BY ConstantsAre
  <2>2. monTimer' \in 0..Beat /\ monLate' \in 0..MonLag
    BY <1>5, <2>1 DEF MonSleep, MonRefused
  <2>3. refused' \in BOOLEAN
    BY <1>5 DEF MonSleep, MonRefused
  <2>4. NoPass /\ UNCHANGED <<monKeeps, rows, app, byUser>>
    BY <1>5 DEF MonSleep, MonRefused
  <2> QED
    BY <2>2, <2>3, <2>4 DEF NoPass, monKeeps, TypeOK
<1>6. CASE MonException
  BY <1>6, ConstantsAre, RareTyped DEF MonException, NoPass, history, TypeOK
<1> QED
  BY <1>1, <1>2, <1>3, <1>4, <1>5, <1>6 DEF Monitor

LEMMA EditTyped ==
  ASSUME TypeOK, NEW a \in Apps, SaveApp(a) \/ DeleteApp(a)
  PROVE  /\ UNCHANGED <<nodeVars, calls, rows, monVars, heard, refused>>
         /\ app' \in [Apps -> App] /\ byUser' \subseteq Apps /\ rare' \in 0..MaxRare
<1>1. rare' \in 0..MaxRare
  BY RareTyped DEF SaveApp, DeleteApp
<1>2. \E e \in App : app' = [app EXCEPT ![a] = e]
  BY DEF SaveApp, DeleteApp, App
<1>3. app' \in [Apps -> App]
  BY <1>2 DEF TypeOK
<1> QED
  BY <1>1, <1>3 DEF SaveApp, DeleteApp, appKeeps, TypeOK

LEMMA TypeStep ==
  TypeOK /\ CallsApart /\ RowsBounded /\ [Next]_vars => TypeOK'
<1> SUFFICES ASSUME TypeOK, CallsApart, RowsBounded, [Next]_vars PROVE TypeOK'
  OBVIOUS
<1>0. CASE UNCHANGED vars
  BY <1>0 DEF TypeOK, vars, nodeVars, monVars, history
<1>1. CASE \E n \in Nodes : RegistryThread(n) \/ StopNode(n) \/ Kill(n) \/ Start(n)
  <2>1. PICK n \in Nodes : RegistryThread(n) \/ StopNode(n) \/ Kill(n) \/ Start(n)
    BY <1>1
  <2>2. calls' \subseteq Call
    BY <2>1, NodeTyped, AbandonedTyped, ArrivesTyped DEF TypeOK
  <2> QED
    BY <2>1, <2>2, NodeTyped DEF TypeOK, monVars, history
<1>2. CASE \E c \in calls : AdminBiz(c)
  <2>1. PICK c \in calls : AdminBiz(c)
    BY <1>2
  <2>2. CASE RegistrySelect(c)
    BY <2>2, SelectTyped DEF RegistrySelect, callKeeps, TypeOK, nodeVars, monVars
  <2>3. CASE RegistryInsert(c)
    <3>1. calls' \subseteq Call
      BY <2>3 DEF RegistryInsert, Without, TypeOK
    <3> QED
      BY <2>3, <3>1, InsertTyped
         DEF RegistryInsert, callKeeps, TypeOK, nodeVars, monVars
  <2>4. CASE RegistryUpdate(c)
    <3>1. calls' \subseteq Call
      BY <2>4 DEF RegistryUpdate, Without, TypeOK
    <3> QED
      BY <2>4, <3>1, UpdateTyped
         DEF RegistryUpdate, callKeeps, TypeOK, nodeVars, monVars
  <2>5. CASE Remove(c)
    BY <2>5 DEF Remove, Without, callKeeps, TypeOK, nodeVars, monVars
  <2> QED
    BY <2>1, <2>2, <2>3, <2>4, <2>5 DEF AdminBiz
<1>3. CASE Monitor \/ MonException
  BY <1>3, MonitorMoves DEF TypeOK, nodeVars
<1>4. CASE \E a \in Apps : SaveApp(a) \/ DeleteApp(a)
  BY <1>4, EditTyped DEF TypeOK, nodeVars, monVars
<1>5. CASE Tick
  BY <1>5, TickTyped DEF Tick, TypeOK
<1> QED
  BY <1>0, <1>1, <1>2, <1>3, <1>4, <1>5 DEF Next

-----------------------------------------------------------------------------
(* Calls, and the rows they know *)

\* The calls are those there were, or some of them; so are the rows, as far as ids go.
CallsStay ==
  /\ \A d \in calls' : \E c \in calls :
       d.node = c.node /\ d.slot = c.slot /\ d.row = c.row /\ d.step = c.step
  /\ \A d, e \in calls' : d.node = e.node /\ d.slot = e.slot => d = e

RowsStay == \A r \in rows' : \E s \in rows : r.id = s.id /\ r.node = s.node

LEMMA CallsFewer == ASSUME CallsApart, calls' \subseteq calls PROVE CallsStay
BY DEF CallsApart, CallsStay

LEMMA CallsAbandoned ==
  ASSUME TypeOK, CallsApart, NEW n, calls' = Abandoned(n)
  PROVE  CallsStay
<1>1. \A d \in calls' : \E c \in calls :
        /\ d.node = c.node /\ d.slot = c.slot /\ d.row = c.row /\ d.step = c.step
        /\ d = IF c.node = n THEN [c EXCEPT !.waited = FALSE] ELSE c
  BY AbandonedTyped
<1>2. ASSUME NEW d \in calls', NEW e \in calls', d.node = e.node, d.slot = e.slot
      PROVE  d = e
  <2>1. PICK c \in calls : /\ d.node = c.node /\ d.slot = c.slot
                           /\ d = IF c.node = n THEN [c EXCEPT !.waited = FALSE] ELSE c
    BY <1>1
  <2>2. PICK b \in calls : /\ e.node = b.node /\ e.slot = b.slot
                           /\ e = IF b.node = n THEN [b EXCEPT !.waited = FALSE] ELSE b
    BY <1>1
  <2>3. c = b
    BY <1>2, <2>1, <2>2 DEF CallsApart
  <2> QED
    BY <2>1, <2>2, <2>3
<1> QED
  BY <1>1, <1>2 DEF CallsStay

LEMMA RowsFewer == ASSUME rows' \subseteq rows PROVE RowsStay
BY DEF RowsStay

LEMMA CallsApartKept == ASSUME CallsApart, CallsStay, RowsStay PROVE CallsApart'
BY DEF CallsApart, CallsStay, RowsStay

LEMMA RowsBoundedKept ==
  ASSUME RowsBounded, CallsStay, RowsStay, \A r, s \in rows' : r.id = s.id => r = s
  PROVE  RowsBounded'
BY DEF RowsBounded, CallsStay, RowsStay

\* A call more, of another slot: it has not selected yet.
LEMMA CallArrives ==
  ASSUME TypeOK, CallsApart, RowsBounded, UNCHANGED rows,
         NEW n \in Nodes, NEW step \in {"select", "remove"}, NEW waited \in BOOLEAN,
         Arrives(n, step, waited)
  PROVE  CallsApart' /\ RowsBounded'
<1>1. PICK c \in Call : /\ calls' = calls \cup {c} /\ c.node = n /\ c.row = 0 /\ c.step = step
                        /\ \A d \in calls : d.node = n => d.slot # c.slot
  BY ArrivesTyped
<1>2. \A r \in rows : r.id # 0
  BY IdsAre DEF TypeOK, Row
<1>3. CallsApart'
  BY <1>1, <1>2 DEF CallsApart
<1>4. RowsBounded'
  BY <1>1 DEF RowsBounded
<1> QED
  BY <1>3, <1>4

\* A call inserts a row only if it found none: it takes its own slot for it.
LEMMA CallSelects ==
  ASSUME TypeOK, CallsApart, RowsBounded, NEW c \in calls, RegistrySelect(c)
  PROVE  CallsApart' /\ RowsBounded'
<1>0. UNCHANGED rows
  BY DEF RegistrySelect
<1>1. CASE calls' = Without(c)
  <2>1. CallsStay /\ RowsStay
    BY <1>0, <1>1, CallsFewer, RowsFewer DEF Without
  <2> QED
    BY <1>0, <2>1, CallsApartKept, RowsBoundedKept DEF TypeOK
<1>2. CASE \E d \in Call :
             /\ calls' = Without(c) \cup {d} /\ d.node = c.node /\ d.slot = c.slot
             /\ \/ d.step = "insert" /\ d.row = c.row /\ RowsOf(c.node) = {}
                \/ d.step = "update" /\ \E r \in rows : r.node = c.node /\ d.row = r.id
  <2>1. PICK d \in Call :
             /\ calls' = Without(c) \cup {d} /\ d.node = c.node /\ d.slot = c.slot
             /\ \/ d.step = "insert" /\ d.row = c.row /\ RowsOf(c.node) = {}
                \/ d.step = "update" /\ \E r \in rows : r.node = c.node /\ d.row = r.id
    BY <1>2
  <2>2. \A r, s \in rows : r.id = s.id => r = s
    BY DEF TypeOK
  <2>3. CallsApart'
    <3>1. \A e, f \in calls' : e.node = f.node /\ e.slot = f.slot => e = f
      BY <2>1 DEF CallsApart, Without
    <3>2. \A e \in calls', r \in rows' : e.row = r.id => r.node = e.node
      BY <1>0, <2>1, <2>2 DEF CallsApart, Without
    <3> QED
      BY <3>1, <3>2 DEF CallsApart
  <2>4. d.step = "insert" => \A r \in rows : r.node # d.node
    BY <2>1 DEF RowsOf
  <2>5. RowsBounded'
    <3>1. PICK place \in [Ids -> Slots] :
            /\ \A r, s \in rows : r.node = s.node /\ place[r.id] = place[s.id] => r = s
            /\ \A r \in rows, e \in calls :
                 r.node = e.node /\ e.step = "insert" => place[r.id] # e.slot
      BY DEF RowsBounded
    <3>2. \A r \in rows', e \in calls' :
            r.node = e.node /\ e.step = "insert" => place[r.id] # e.slot
      BY <1>0, <2>1, <2>4, <3>1 DEF Without
    <3> QED
      BY <1>0, <3>1, <3>2 DEF RowsBounded
  <2> QED
    BY <2>3, <2>5
<1> QED
  BY <1>1, <1>2, SelectTyped

LEMMA CallInserts ==
  ASSUME TypeOK, CallsApart, RowsBounded, NEW c \in calls, RegistryInsert(c)
  PROVE  CallsApart' /\ RowsBounded'
<1>1. PICK r \in Row : /\ rows' = rows \cup {r} /\ r.node = c.node /\ r.age = 0
                       /\ \A s \in rows : s.id # r.id
                       /\ \A d \in calls : d.row # r.id
  BY InsertTyped
<1>2. calls' = calls \ {c} /\ c.step = "insert" /\ c.slot \in Slots /\ r.id \in Ids
  BY DEF RegistryInsert, Without, TypeOK, Call, Row
<1>3. CallsApart'
  BY <1>1, <1>2 DEF CallsApart
<1>4. PICK place \in [Ids -> Slots] :
        /\ \A q, s \in rows : q.node = s.node /\ place[q.id] = place[s.id] => q = s
        /\ \A q \in rows, d \in calls :
             q.node = d.node /\ d.step = "insert" => place[q.id] # d.slot
  BY DEF RowsBounded
<1> DEFINE place2 == [place EXCEPT ![r.id] = c.slot]
<1>5. /\ place2 \in [Ids -> Slots] /\ place2[r.id] = c.slot
      /\ \A s \in rows : place2[s.id] = place[s.id]
  BY <1>1, <1>2 DEF TypeOK, Row
<1> HIDE DEF place2
<1>6. \A q, s \in rows' : q.node = s.node /\ place2[q.id] = place2[s.id] => q = s
  BY <1>1, <1>2, <1>4, <1>5
<1>7. \A d \in calls' : d.node = c.node => d.slot # c.slot
  BY <1>2 DEF CallsApart
<1>8. \A q \in rows', d \in calls' : q.node = d.node /\ d.step = "insert" => place2[q.id] # d.slot
  BY <1>1, <1>2, <1>4, <1>5, <1>7
<1>9. RowsBounded'
  BY <1>5, <1>6, <1>8 DEF RowsBounded
<1> QED
  BY <1>3, <1>9

LEMMA CallsStep ==
  TypeOK /\ CallsApart /\ RowsBounded /\ [Next]_vars => CallsApart' /\ RowsBounded'
<1> SUFFICES ASSUME TypeOK, CallsApart, RowsBounded, [Next]_vars PROVE CallsApart' /\ RowsBounded'
  OBVIOUS
<1>0. \A r, s \in rows' : r.id = s.id => r = s
  BY TypeStep DEF TypeOK
<1>1. CASE CallsStay /\ RowsStay
  BY <1>0, <1>1, CallsApartKept, RowsBoundedKept
<1>2. CASE UNCHANGED <<calls, rows>>
  BY <1>1, <1>2, CallsFewer, RowsFewer
<1>3. CASE \E n \in Nodes : RegistryThread(n) \/ StopNode(n) \/ Kill(n) \/ Start(n)
  <2>1. PICK n \in Nodes : RegistryThread(n) \/ StopNode(n) \/ Kill(n) \/ Start(n)
    BY <1>3
  <2>2. UNCHANGED rows
    BY <2>1, NodeTyped
  <2>3. CASE calls' = Abandoned(n)
    BY <1>1, <2>2, <2>3, CallsAbandoned, RowsFewer
  <2> QED
    BY <1>2, <2>1, <2>2, <2>3, NodeTyped, CallArrives
<1>4. CASE \E c \in calls : AdminBiz(c)
  <2>1. PICK c \in calls : AdminBiz(c)
    BY <1>4
  <2>2. CASE RegistryUpdate(c)
    <3>1. CallsStay /\ RowsStay
      BY <2>2, CallsFewer, UpdateTyped DEF RegistryUpdate, Without, RowsStay
    <3> QED
      BY <1>1, <3>1
  <2>3. CASE Remove(c)
    <3>1. CallsStay /\ RowsStay
      BY <2>3, CallsFewer, RowsFewer DEF Remove, Without
    <3> QED
      BY <1>1, <3>1
  <2> QED
    BY <2>1, <2>2, <2>3, CallSelects, CallInserts DEF AdminBiz
<1>5. CASE Monitor \/ MonException
  BY <1>1, <1>5, MonitorMoves, CallsFewer, RowsFewer
<1>6. CASE \E a \in Apps : SaveApp(a) \/ DeleteApp(a)
  BY <1>2, <1>6, EditTyped
<1>7. CASE Tick
  <2>1. CallsStay /\ RowsStay
    BY <1>7, TickTyped, CallsFewer DEF Tick, RowsStay
  <2> QED
    BY <1>1, <2>1
<1> QED
  BY <1>2, <1>3, <1>4, <1>5, <1>6, <1>7 DEF Next, vars

-----------------------------------------------------------------------------
(* Ages, and what is heard *)

\* The numbers of a state.
LEMMA NumbersAre ==
  ASSUME TypeOK
  PROVE  /\ monTimer \in Nat /\ monTimer <= Beat /\ monLate \in Nat /\ monLate <= MonLag
         /\ \A n \in Nodes : heard[n] \in Nat
         /\ \A r \in rows : /\ r.node \in Nodes /\ r.age \in Nat /\ r.age <= RowCap
         /\ \A a \in Apps : app[a].addresses \subseteq Nodes
BY ConstantsAre DEF TypeOK, Row, App

\* A step that lets no time pass: rows are those there were, or of an executor just heard.
HeardKept ==
  /\ \A n \in Nodes : heard'[n] \in Nat /\ heard'[n] <= heard[n]
  /\ \A r \in rows' : r \in rows \/ (r.age = 0 /\ heard'[r.node] = 0 /\ r.node \in Nodes)

LEMMA CallHeard ==
  ASSUME TypeOK, CallsApart, RowsBounded, NEW c \in calls, AdminBiz(c)
  PROVE  HeardKept
<1>0. \A n \in Nodes : heard[n] \in Nat
  BY NumbersAre
<1>1. c.node \in Nodes
  BY DEF TypeOK, Call
<1>2. CASE RegistrySelect(c) \/ Remove(c)
  <2>1. UNCHANGED heard /\ rows' \subseteq rows
    BY <1>2 DEF RegistrySelect, Remove
  <2> QED
    BY <1>0, <2>1 DEF HeardKept
<1>3. CASE RegistryInsert(c)
  <2>1. /\ heard'[c.node] = 0 /\ \A n \in Nodes : n # c.node => heard'[n] = heard[n]
        /\ \E r \in Row : rows' = rows \cup {r} /\ r.node = c.node /\ r.age = 0
    BY <1>3, InsertTyped
  <2> QED
    BY <1>0, <1>1, <2>1 DEF HeardKept
<1>4. CASE RegistryUpdate(c)
  <2>1. heard' \in [Nodes -> 0..Cap] /\ (\A n \in Nodes : heard'[n] <= heard[n])
        /\ rows' \subseteq Row
    BY <1>4, UpdateTyped
  <2>2. \A r \in rows' : r \in rows \/ (r.age = 0 /\ heard'[r.node] = 0)
    BY <1>4, UpdateTyped
  <2> QED
    BY <2>1, <2>2, ConstantsAre DEF HeardKept, Row
<1> QED
  BY <1>2, <1>3, <1>4 DEF AdminBiz

LEMMA HeardStep ==
  ASSUME TypeOK, CallsApart, RowsBounded, Next, ~Tick
  PROVE  HeardKept
<1>0. \A n \in Nodes : heard[n] \in Nat
  BY NumbersAre
<1>1. CASE UNCHANGED heard /\ rows' \subseteq rows
  BY <1>0, <1>1 DEF HeardKept
<1>2. CASE \E n \in Nodes : RegistryThread(n) \/ StopNode(n) \/ Kill(n) \/ Start(n)
  BY <1>1, <1>2, NodeTyped DEF history
<1>3. CASE \E c \in calls : AdminBiz(c)
  BY <1>3, CallHeard
<1>4. CASE Monitor \/ MonException
  BY <1>1, <1>4, MonitorMoves
<1>5. CASE \E a \in Apps : SaveApp(a) \/ DeleteApp(a)
  BY <1>1, <1>5, EditTyped
<1> QED
  BY <1>2, <1>3, <1>4, <1>5 DEF Next

LEMMA AgesStep ==
  TypeOK /\ CallsApart /\ RowsBounded /\ AgesTrue /\ [Next]_vars => AgesTrue'
<1> SUFFICES ASSUME TypeOK, CallsApart, RowsBounded, AgesTrue, [Next]_vars PROVE AgesTrue'
  OBVIOUS
<1>1. CASE UNCHANGED vars
  BY <1>1 DEF vars, history, AgesTrue
<1>2. CASE Next /\ ~Tick
  <2>1. HeardKept
    BY <1>2, HeardStep
  <2> QED
    BY <2>1, NumbersAre DEF HeardKept, AgesTrue
<1>3. CASE Tick
  <2> SUFFICES ASSUME NEW r \in rows', r.age < RowCap PROVE heard'[r.node] <= r.age
    BY DEF AgesTrue
  <2>1. PICK s \in rows : r.node = s.node /\ (r.age = RowCap \/ r.age = s.age + 1)
    BY <1>3, TickTyped
  <2>2. s.node \in Nodes /\ s.age \in Nat /\ heard[s.node] \in Nat
    BY NumbersAre
  <2>3. r.age = s.age + 1 /\ s.age < RowCap
    BY <2>1, <2>2, ConstantsAre
  <2>4. heard[s.node] <= s.age
    BY <2>3 DEF AgesTrue
  <2>5. heard'[s.node] <= heard[s.node] + 1 /\ heard'[s.node] \in Nat
    BY <1>3, <2>2, TickTyped, ConstantsAre
  <2> QED
    BY <2>1, <2>2, <2>3, <2>4, <2>5
<1> QED
  BY <1>1, <1>2, <1>3

LEMMA NoListStep == TypeOK /\ NoRowNoList /\ [Next]_vars => NoRowNoList'
<1> SUFFICES ASSUME TypeOK, NoRowNoList, [Next]_vars PROVE NoRowNoList'
  OBVIOUS
<1>1. CASE UNCHANGED app
  BY <1>1 DEF NoRowNoList
<1>2. CASE MonUpdate
  <2>1. PICK a \in monApps :
          app' = [app EXCEPT ![a].addresses =
                    IF app[a].row = "there" THEN ExecutorsOf(a) ELSE @]
    BY <1>2 DEF MonUpdate
  <2>2. a \in Apps /\ \A b \in Apps : app[b] \in App
    BY DEF TypeOK
  <2>3. app'[a].row = app[a].row /\ (app[a].row # "there" => app'[a].addresses = app[a].addresses)
    BY <2>1, <2>2 DEF TypeOK, App
  <2>4. \A b \in Apps : b # a => app'[b] = app[b]
    BY <2>1, <2>2 DEF TypeOK
  <2> QED
    BY <2>3, <2>4 DEF NoRowNoList
<1>3. CASE \E a \in Apps : SaveApp(a) \/ DeleteApp(a)
  <2>1. PICK a \in Apps : SaveApp(a) \/ DeleteApp(a)
    BY <1>3
  <2>2. app'[a].row = "there" \/ app'[a].addresses = {}
    BY <2>1 DEF SaveApp, DeleteApp, TypeOK
  <2>3. \A b \in Apps : b # a => app'[b] = app[b]
    BY <2>1 DEF SaveApp, DeleteApp, TypeOK
  <2> QED
    BY <2>2, <2>3 DEF NoRowNoList
<1>4. CASE \E n \in Nodes : RegistryThread(n) \/ StopNode(n) \/ Kill(n) \/ Start(n)
  BY <1>1, <1>4, NodeTyped
<1>5. CASE \E c \in calls : AdminBiz(c)
  BY <1>1, <1>5 DEF AdminBiz, RegistrySelect, RegistryInsert, RegistryUpdate, Remove, callKeeps
<1>6. CASE MonDelete \/ MonApps \/ MonExecutors \/ MonRefused \/ MonSleep \/ MonException \/ Tick
  BY <1>1, <1>6 DEF MonDelete, MonApps, MonExecutors, MonRefused, MonSleep, MonException, Tick
<1> QED
  BY <1>1, <1>2, <1>3, <1>4, <1>5, <1>6 DEF Next, Monitor, vars

-----------------------------------------------------------------------------
(* The monitor's pass, and the lists *)

\* What is said of executors stays true of executors heard since.
LEMMA FreshKept ==
  ASSUME TypeOK, PassFresh, ListsFresh, HeardKept,
         UNCHANGED <<monPc, monTimer, monLate, monApps, monExecutors, app, byUser, refused>>
  PROVE  PassFresh' /\ ListsFresh'
<1>1. /\ \A n \in Nodes : heard'[n] \in Nat /\ heard[n] \in Nat /\ heard'[n] <= heard[n]
      /\ monTimer \in Nat /\ monTimer <= Beat /\ monLate \in Nat
      /\ DeadTime \in Nat /\ MonLag \in Nat /\ Beat \in Nat
  BY NumbersAre, ConstantsAre DEF HeardKept
<1>2. Listed' = Listed /\ monExecutors \subseteq Nodes
      /\ \A a \in Listed : app[a].addresses \subseteq Nodes
  BY NumbersAre DEF Listed, TypeOK
<1>3. \A r \in rows' : r.node \in Nodes /\ (r \in rows \/ heard'[r.node] = 0)
  BY NumbersAre DEF HeardKept
<1>4. ASSUME monPc \in {"apps", "executors"}
      PROVE  \A r \in rows' : heard'[r.node] <= DeadTime + monLate
  BY <1>1, <1>3, <1>4 DEF PassFresh
<1>5. ASSUME monPc = "update"
      PROVE  \A n \in monExecutors : heard'[n] <= DeadTime + monLate
  BY <1>1, <1>2, <1>5 DEF PassFresh
<1>6. ASSUME monPc \in {"executors", "update"}
      PROVE  \A a \in Listed \ monApps : \A n \in app[a].addresses : heard'[n] <= DeadTime + monLate
  BY <1>1, <1>2, <1>6 DEF PassFresh
<1>7. ASSUME ~refused, NEW a \in Listed, NEW n \in app[a].addresses
      PROVE  heard'[n] <= DeadTime + MonLag + (Beat - monTimer) + monLate
  <2>1. heard[n] <= DeadTime + MonLag + (Beat - monTimer) + monLate /\ n \in Nodes
    BY <1>2, <1>7 DEF ListsFresh
  <2> QED
    BY <1>1, <2>1
<1>8. PassFresh'
  BY <1>2, <1>4, <1>5, <1>6 DEF PassFresh
<1>9. ListsFresh'
  BY <1>2, <1>7 DEF ListsFresh
<1> QED
  BY <1>8, <1>9

\* The rows a pass leaves are of executors heard within DeadTime.
LEMMA FreshDelete ==
  ASSUME TypeOK, AgesTrue, PassFresh, ListsFresh, MonDelete
  PROVE  PassFresh' /\ ListsFresh'
<1>1. monPc' = "apps" /\ monTimer = 0
      /\ UNCHANGED <<heard, app, monTimer, monLate, monApps, monExecutors, byUser, refused>>
  BY DEF MonDelete, monKeeps
<1>2. \A r \in rows' : r \in rows /\ ~(r.age > DeadTime)
  BY DEF MonDelete, Dead
<1>3. ASSUME NEW r \in rows' PROVE heard'[r.node] <= DeadTime + monLate
  <2>1. r.age < RowCap /\ r.age <= DeadTime
    BY <1>2, NumbersAre, ConstantsAre
  <2>2. heard[r.node] <= r.age
    BY <1>2, <2>1 DEF AgesTrue
  <2> QED
    BY <1>1, <1>2, <2>1, <2>2, NumbersAre, ConstantsAre
<1>4. PassFresh'
  BY <1>1, <1>3 DEF PassFresh
<1>5. ListsFresh'
  BY <1>1 DEF ListsFresh, Listed
<1> QED
  BY <1>4, <1>5

\* The apps a pass does not take have no list the monitor writes.
LEMMA FreshApps ==
  ASSUME TypeOK, NoRowNoList, PassFresh, ListsFresh, MonApps
  PROVE  PassFresh' /\ ListsFresh'
<1>1. monPc = "apps" /\ monPc' = "executors"
      /\ UNCHANGED <<rows, heard, app, monTimer, monLate, monExecutors, byUser, refused>>
  BY DEF MonApps, monKeeps
<1>2. monApps' = {a \in Apps : app[a].row = "there" /\ app[a].auto}
  BY DEF MonApps
<1>3. \A a \in Listed \ monApps' : app[a].addresses = {}
  BY <1>2 DEF Listed, NoRowNoList
<1>4. PassFresh'
  BY <1>1, <1>3 DEF PassFresh, Listed
<1>5. ListsFresh'
  BY <1>1 DEF ListsFresh, Listed
<1> QED
  BY <1>4, <1>5

LEMMA FreshExecutors ==
  ASSUME TypeOK, PassFresh, ListsFresh, MonExecutors
  PROVE  PassFresh' /\ ListsFresh'
<1>1. monPc = "executors" /\ monPc' = "update" /\ monExecutors' = {r.node : r \in rows}
      /\ UNCHANGED <<rows, heard, app, monTimer, monLate, monApps, byUser, refused>>
  BY DEF MonExecutors, monKeeps
<1>2. \A n \in monExecutors' : heard[n] <= DeadTime + monLate
  BY <1>1 DEF PassFresh
<1>3. PassFresh'
  BY <1>1, <1>2 DEF PassFresh, Listed
<1>4. ListsFresh'
  BY <1>1 DEF ListsFresh, Listed
<1> QED
  BY <1>3, <1>4

\* A list written is of executors the pass read, or empty: the app is gone.
LEMMA FreshUpdate ==
  ASSUME TypeOK, NoRowNoList, PassFresh, ListsFresh, MonUpdate
  PROVE  PassFresh' /\ ListsFresh'
<1>1. PICK a \in monApps :
        /\ monApps' = monApps \ {a} /\ byUser' = byUser \ {a}
        /\ app' = [app EXCEPT ![a].addresses =
                     IF app[a].row = "there" THEN ExecutorsOf(a) ELSE @]
  BY DEF MonUpdate
<1>2. monPc = "update" /\ monPc' = "update" /\ monTimer = 0
      /\ UNCHANGED <<rows, heard, monTimer, monLate, monExecutors, refused>>
  BY DEF MonUpdate, monKeeps, PassFresh
<1>3. a \in Apps /\ \A b \in Apps : app[b] \in App
  BY DEF TypeOK
<1>4. app'[a].addresses \subseteq monExecutors
  BY <1>1, <1>3 DEF TypeOK, App, NoRowNoList, ExecutorsOf
<1>5. \A b \in Apps : b # a => app'[b] = app[b]
  BY <1>1, <1>3 DEF TypeOK
<1>6. /\ \A n \in monExecutors : heard[n] <= DeadTime + monLate
      /\ \A b \in Listed \ monApps : \A n \in app[b].addresses : heard[n] <= DeadTime + monLate
  BY <1>2 DEF PassFresh
<1>7. ASSUME NEW b \in Listed' \ monApps', NEW n \in app'[b].addresses
      PROVE  heard[n] <= DeadTime + monLate
  <2>1. CASE b = a
    BY <1>4, <1>6, <2>1
  <2>2. CASE b # a
    <3>1. b \in Listed \ monApps
      BY <1>1, <1>5, <2>2 DEF Listed
    <3> QED
      BY <1>5, <1>6, <2>2, <3>1 DEF Listed
  <2> QED
    BY <2>1, <2>2
<1>8. PassFresh'
  BY <1>2, <1>6, <1>7 DEF PassFresh
<1>9. ASSUME ~refused, NEW b \in Listed', NEW n \in app'[b].addresses
      PROVE  heard[n] <= DeadTime + MonLag + (Beat - monTimer) + monLate
  <2>1. CASE b = a
    <3>1. heard[n] <= DeadTime + monLate /\ n \in Nodes
      BY <1>4, <1>6, <2>1 DEF TypeOK
    <3> QED
      BY <1>2, <3>1, NumbersAre, ConstantsAre
  <2>2. CASE b # a
    <3>1. b \in Listed /\ n \in app[b].addresses
      BY <1>1, <1>5, <2>2 DEF Listed
    <3> QED
      BY <1>9, <3>1 DEF ListsFresh
  <2> QED
    BY <2>1, <2>2
<1>10. ListsFresh'
  BY <1>2, <1>9 DEF ListsFresh
<1> QED
  BY <1>8, <1>10

\* The pass is over, and no later than the monitor may be: its lists age a sleep from now.
LEMMA FreshSleep ==
  ASSUME TypeOK, PassFresh, MonSleep
  PROVE  PassFresh' /\ ListsFresh'
<1>1. monPc = "update" /\ monApps = {} /\ monPc' = "sleep" /\ monTimer' = Beat /\ monLate' = 0
      /\ UNCHANGED <<heard, app, byUser>>
  BY DEF MonSleep, NoPass, monKeeps
<1>2. ASSUME NEW a \in Listed, NEW n \in app[a].addresses
      PROVE  heard[n] <= DeadTime + MonLag + (Beat - Beat) + 0
  <2>1. heard[n] <= DeadTime + monLate
    BY <1>1 DEF PassFresh
  <2>2. n \in Nodes
    BY NumbersAre DEF Listed
  <2> QED
    BY <2>1, <2>2, NumbersAre, ConstantsAre
<1>3. PassFresh'
  BY <1>1 DEF PassFresh
<1>4. ListsFresh'
  BY <1>1, <1>2 DEF ListsFresh, Listed
<1> QED
  BY <1>3, <1>4

\* A refused pass promises nothing of the lists.
LEMMA FreshRefused == MonRefused => PassFresh' /\ ListsFresh'
BY DEF MonRefused, NoPass, PassFresh, ListsFresh

\* A pass that fails begins again at once.
LEMMA FreshException ==
  ASSUME TypeOK, PassFresh, ListsFresh, MonException
  PROVE  PassFresh' /\ ListsFresh'
<1>1. monPc # "sleep" /\ monPc' = "sleep" /\ monTimer' = 0
      /\ UNCHANGED <<heard, app, monLate, byUser, refused>>
  BY DEF MonException, NoPass, history
<1>2. monTimer = 0
  BY <1>1 DEF PassFresh
<1>3. PassFresh'
  BY <1>1 DEF PassFresh
<1>4. ListsFresh'
  BY <1>1, <1>2 DEF ListsFresh, Listed
<1> QED
  BY <1>3, <1>4

\* A user's list is the user's.
LEMMA FreshEdit ==
  ASSUME TypeOK, PassFresh, ListsFresh, NEW a \in Apps, SaveApp(a) \/ DeleteApp(a)
  PROVE  PassFresh' /\ ListsFresh'
<1>1. UNCHANGED <<rows, heard, monPc, monTimer, monLate, monApps, monExecutors, refused>>
  BY EditTyped DEF monVars
<1>2. \A b \in Apps : b # a => app'[b] = app[b]
  BY DEF SaveApp, DeleteApp, TypeOK
<1>3. a \in byUser' \/ (app'[a].addresses = {} /\ byUser' = byUser)
  BY DEF SaveApp, DeleteApp, TypeOK
<1>4. byUser \subseteq byUser'
  BY DEF SaveApp, DeleteApp
<1>5. \A b \in Listed' : app'[b].addresses = {} \/ (b \in Listed /\ app'[b] = app[b])
  BY <1>2, <1>3, <1>4 DEF Listed
<1>6. PassFresh'
  BY <1>1, <1>5 DEF PassFresh
<1>7. ListsFresh'
  BY <1>1, <1>5 DEF ListsFresh
<1> QED
  BY <1>6, <1>7

\* All ages grow by one, and so does the time of the pass or of the sleep.
LEMMA FreshTick ==
  ASSUME TypeOK, PassFresh, ListsFresh, Tick
  PROVE  PassFresh' /\ ListsFresh'
<1>1. /\ \A n \in Nodes : /\ heard[n] \in Nat /\ heard'[n] \in Nat
                          /\ heard'[n] <= heard[n] + 1
      /\ monTimer \in Nat /\ monTimer <= Beat /\ monLate \in Nat /\ monTimer' \in Nat
      /\ monTimer' <= Beat /\ monLate' \in Nat
      /\ DeadTime \in Nat /\ MonLag \in Nat /\ Beat \in Nat
  BY TickTyped, NumbersAre, ConstantsAre
<1>2. \/ monPc = "sleep" /\ monTimer' = monTimer - 1 /\ monLate' = monLate
      \/ monTimer' = monTimer /\ monLate' = monLate + 1
  BY TickTyped
<1>3. UNCHANGED <<app, monPc, monApps, monExecutors, byUser, refused>> /\ Listed' = Listed
  BY DEF Tick, Listed
<1>4. /\ monExecutors \subseteq Nodes
      /\ \A a \in Listed : app[a].addresses \subseteq Nodes
      /\ \A r \in rows' : \E s \in rows : r.node = s.node /\ s.node \in Nodes
  BY TickTyped, NumbersAre DEF Listed, TypeOK
<1>5. ASSUME NEW n \in Nodes, monPc # "sleep", heard[n] <= DeadTime + monLate
      PROVE  heard'[n] <= DeadTime + monLate'
  <2>1. monLate' = monLate + 1
    BY <1>2, <1>5
  <2> QED
    BY <1>1, <1>5, <2>1
<1>6. PassFresh'
  <2>1. ASSUME monPc # "sleep" PROVE monTimer' = 0
    BY <1>2, <2>1 DEF PassFresh
  <2>2. ASSUME monPc \in {"apps", "executors"}, NEW r \in rows'
        PROVE  heard'[r.node] <= DeadTime + monLate'
    BY <1>4, <1>5, <2>2 DEF PassFresh
  <2>3. ASSUME monPc = "update", NEW n \in monExecutors
        PROVE  heard'[n] <= DeadTime + monLate'
    BY <1>4, <1>5, <2>3 DEF PassFresh
  <2>4. ASSUME monPc \in {"executors", "update"}, NEW a \in Listed \ monApps,
               NEW n \in app[a].addresses
        PROVE  heard'[n] <= DeadTime + monLate'
    BY <1>4, <1>5, <2>4 DEF PassFresh
  <2> QED
    BY <1>3, <2>1, <2>2, <2>3, <2>4 DEF PassFresh
<1>7. ASSUME ~refused, NEW a \in Listed, NEW n \in app[a].addresses
      PROVE  heard'[n] <= DeadTime + MonLag + (Beat - monTimer') + monLate'
  <2>1. heard[n] <= DeadTime + MonLag + (Beat - monTimer) + monLate /\ n \in Nodes
    BY <1>4, <1>7 DEF ListsFresh
  <2> QED
    BY <1>1, <1>2, <2>1
<1>8. ListsFresh'
  BY <1>3, <1>7 DEF ListsFresh
<1> QED
  BY <1>6, <1>8

LEMMA FreshStep ==
  RegistryIInv /\ [Next]_vars => PassFresh' /\ ListsFresh'
<1> SUFFICES ASSUME RegistryIInv, [Next]_vars PROVE PassFresh' /\ ListsFresh'
  OBVIOUS
<1> USE DEF RegistryIInv
<1>0. CASE UNCHANGED vars
  BY <1>0 DEF vars, monVars, history, PassFresh, ListsFresh, Listed
<1>1. CASE \E n \in Nodes : RegistryThread(n) \/ StopNode(n) \/ Kill(n) \/ Start(n)
  <2>1. PICK n \in Nodes : RegistryThread(n) \/ StopNode(n) \/ Kill(n) \/ Start(n)
    BY <1>1
  <2>2. UNCHANGED <<rows, app, monPc, monTimer, monLate, monApps, monExecutors, heard, byUser, refused>>
    BY <2>1, NodeTyped DEF monVars, history
  <2> QED
    BY <2>2 DEF PassFresh, ListsFresh, Listed
<1>2. CASE \E c \in calls : AdminBiz(c)
  <2>1. PICK c \in calls : AdminBiz(c)
    BY <1>2
  <2>2. UNCHANGED <<monPc, monTimer, monLate, monApps, monExecutors, app, byUser, refused>>
    BY <2>1
       DEF AdminBiz, RegistrySelect, RegistryInsert, RegistryUpdate, Remove, callKeeps, monVars
  <2>3. HeardKept
    BY <2>1, CallHeard
  <2> QED
    BY <2>2, <2>3, FreshKept
<1>3. CASE Monitor \/ MonException
  BY <1>3, FreshDelete, FreshApps, FreshExecutors, FreshUpdate, FreshRefused,
     FreshSleep, FreshException
     DEF Monitor
<1>4. CASE \E a \in Apps : SaveApp(a) \/ DeleteApp(a)
  BY <1>4, FreshEdit
<1>5. CASE Tick
  BY <1>5, FreshTick
<1> QED
  BY <1>0, <1>1, <1>2, <1>3, <1>4, <1>5 DEF Next

-----------------------------------------------------------------------------
(* The invariant, and what follows from it *)

LEMMA InvInit == Init => RegistryIInv
<1> SUFFICES ASSUME Init PROVE RegistryIInv
  OBVIOUS
<1>1. TypeOK
  BY InitType
<1>2. calls = {} /\ rows = {} /\ monPc = "sleep" /\ \A a \in Apps : app[a].addresses = {}
  BY DEF Init
<1>3. CallsApart /\ AgesTrue /\ NoRowNoList /\ PassFresh /\ ListsFresh
  BY <1>2 DEF CallsApart, AgesTrue, NoRowNoList, PassFresh, ListsFresh, Listed
<1>4. [i \in Ids |-> 1] \in [Ids -> Slots]
  BY ConstantsAre DEF Slots
<1>5. RowsBounded
  BY <1>2, <1>4 DEF RowsBounded
<1> QED
  BY <1>1, <1>3, <1>5 DEF RegistryIInv

LEMMA InvNext == RegistryIInv /\ [Next]_vars => RegistryIInv'
BY TypeStep, CallsStep, AgesStep, NoListStep, FreshStep DEF RegistryIInv

\* The states the registry can be in: calls keep to their executor's row, a row is as old as its
\* executor's last heartbeat, a pass of the monitor is never older than the monitor may be late.
THEOREM RegistryInvariant == Spec => []RegistryIInv
BY InvInit, InvNext, PTL DEF Spec

\* The registry's variables have their types; two rows never have one id, whatever executors
\* register, time out and start again: AUTO_INCREMENT, and enough ids.
THEOREM RegistryTyped == Spec => []TypeOK
<1>1. RegistryIInv => TypeOK
  BY DEF RegistryIInv
<1> QED
  BY <1>1, RegistryInvariant, PTL

\* ExecutorMonitorHelper.run: when no update was refused since the last pass that was completed,
\* an executor on the list the monitor keeps for its app was heard within DeadTime, a sleep, and
\* the monitor's delays, for any number of executors, apps, calls, lost posts, restarts and edits,
\* and for every length of the sleep and of the delays.
THEOREM ListedAreHeard == Spec => []ListedWereHeard
<1>1. RegistryIInv => ListedWereHeard
  <2> SUFFICES ASSUME RegistryIInv, ~refused, NEW a \in Apps \ byUser, app[a].auto,
                      NEW n \in app[a].addresses
               PROVE  heard[n] <= DeadTime + Beat + 2 * MonLag
    BY DEF ListedWereHeard
  <2> USE DEF RegistryIInv
  <2>1. heard[n] <= DeadTime + MonLag + (Beat - monTimer) + monLate
    BY DEF ListsFresh, Listed
  <2>2. heard[n] \in Nat
    BY NumbersAre
  <2> QED
    BY <2>1, <2>2, NumbersAre, ConstantsAre
<1> QED
  BY <1>1, RegistryInvariant, PTL
=============================================================================

------------------------------ MODULE CronProofs ------------------------------
(* What the constructor of CronExpression makes of every expression: the sets *)
(* that addToSet fills hold what the terms mean.  And, for every documented   *)
(* expression, that getTimeAfter finds the next instant that is meant.        *)
EXTENDS CronExpression, WellFoundedInduction, TLAPS

CycleFields == Fields \ {"year"}

-----------------------------------------------------------------------------
(* Remainders *)

\* A number that is no more than one cycle off has the remainder that is one cycle away.
LEMMA OneCycle ==
  ASSUME NEW M \in Nat, M > 0, NEW x \in Int
  PROVE  /\ x \in 0..M-1 => x % M = x
         /\ x \in -M..-1 => x % M = x + M
         /\ x \in M..2*M-1 => x % M = x - M
<1> DEFINE q == x \div M
           r == x % M
<1>1. q \in Int /\ x = M * q + r /\ r \in 0..M-1
  OBVIOUS
<1> HIDE DEF q, r
<1>2. CASE x \in 0..M-1
  <2>1. q = 0
    BY <1>1, <1>2
  <2> QED
    BY <1>1, <1>2, <2>1 DEF r
<1>3. CASE x \in -M..-1
  <2>1. q = -1
    BY <1>1, <1>3
  <2> QED
    BY <1>1, <1>3, <2>1 DEF r
<1>4. CASE x \in M..2*M-1
  <2>1. q = 1
    BY <1>1, <1>4
  <2> QED
    BY <1>1, <1>4, <2>1 DEF r
<1> QED
  BY <1>2, <1>3, <1>4

-----------------------------------------------------------------------------
(* addToSet *)

\* A field's values, the length of its cycle, and the code's max are what they should be.
LEMMA FieldCycle ==
  ASSUME NEW field \in CycleFields
  PROVE  /\ Low(field) \in {0, 1} /\ High(field) \in Nat /\ Low(field) <= High(field)
         /\ High(field) < NoSpec
         /\ Cycle(field) = High(field) - Low(field) + 1
         /\ Cycle(field) = IF field \in {"second", "minute", "hour"}
                           THEN High(field) + 1 ELSE High(field)
         /\ Low(field) = 1 <=> field \notin {"second", "minute", "hour"}
<1>1. /\ SecondsPerMinute \in 1..98 /\ MinutesPerHour \in 1..98 /\ HoursPerDay \in 1..98
  BY CronAssumption DEF NoSpec
<1> QED
  BY <1>1 DEF CycleFields, Fields, Low, High, Cycle, NoSpec

\* The terms the scanner makes
ScannedTerm ==
  {term \in [form : TermForms, val : Nat, end : Int, incr : Int] :
     term.end >= -1 /\ term.incr >= -1}

StepOf(incr) == IF incr <= 0 THEN 1 ELSE incr

\* The numbers the loop of addToSet runs through, and what it adds for each
Run(start, stop, incr) == {k \in start..stop : (k - start) % StepOf(incr) = 0}

\* A range in order adds the numbers it runs through.
LEMMA AddedInOrder ==
  ASSUME NEW field \in Fields, NEW term \in ScannedTerm,
         Low(field) \in Nat, High(field) \in Nat,
         ~(term.incr \in {0, -1} /\ term.val # AllSpec),
         StartAt(field, term.val) <= StopAt(field, term.end)
  PROVE  AddToSet(field, term.val, term.end, term.incr) =
           Run(StartAt(field, term.val), StopAt(field, term.end), term.incr)
             \union (IF term.incr <= 0 THEN {AllSpec} ELSE {})
<1> DEFINE start == StartAt(field, term.val)
           stop == StopAt(field, term.end)
           val == term.val
           end == term.end
           incr == term.incr
<1>1. start \in Int /\ stop \in Int
  BY DEF ScannedTerm, StartAt, StopAt
<1>2. ~(stop < start)
  BY <1>1
<1>3. stop + 0 = stop
  BY <1>1
<1>4. AddToSet(field, val, end, incr) =
        Run(start, stop, incr) \union (IF incr <= 0 THEN {AllSpec} ELSE {})
  BY <1>2, <1>3 DEF AddToSet, Run, StepOf
<1> QED
  BY <1>4

\* A range that runs over the end of the cycle adds what it runs through, and what lies past
\* the end a cycle earlier.
LEMMA AddedOverEnd ==
  ASSUME NEW field \in CycleFields, NEW term \in ScannedTerm,
         ~(term.incr \in {0, -1} /\ term.val # AllSpec),
         StartAt(field, term.val) \in Low(field)..High(field),
         StopAt(field, term.end) < StartAt(field, term.val)
  PROVE  LET stop == StopAt(field, term.end) + Cycle(field)
             run == Run(StartAt(field, term.val), stop, term.incr)
         IN  /\ AddToSet(field, term.val, term.end, term.incr) =
                  {IF i <= High(field) THEN i ELSE i - Cycle(field) : i \in run}
                    \union (IF term.incr <= 0 THEN {AllSpec} ELSE {})
             /\ run \subseteq Low(field)..(High(field) + Cycle(field) - 1)
<1> DEFINE start == StartAt(field, term.val)
           C == Cycle(field)
           L == Low(field)
           H == High(field)
           stop == StopAt(field, term.end) + C
           run == Run(start, stop, term.incr)
           max == IF field \in {"second", "minute", "hour"} THEN H + 1 ELSE H
           Value(i) == IF i % max = 0 /\ L = 1 THEN max ELSE i % max
<1>1. /\ L \in {0, 1} /\ H \in Nat /\ H < 98 /\ L <= H /\ C = H - L + 1 /\ max = C
      /\ start \in L..H /\ StopAt(field, term.end) \in Nat /\ stop \in Nat /\ stop < start + C
  BY FieldCycle DEF ScannedTerm, StartAt, StopAt, AllSpec, NoSpec
<1>2. AddToSet(field, term.val, term.end, term.incr) =
        {Value(i) : i \in run} \union (IF term.incr <= 0 THEN {AllSpec} ELSE {})
  <2>1. /\ stop = StopAt(field, term.end) + max
        /\ StopAt(field, term.end) < StartAt(field, term.val)
    BY <1>1
  <2> HIDE DEF stop
  <2> QED
    BY <2>1 DEF AddToSet, Run, StepOf
<1> HIDE DEF C, L, H, stop, start, max
<1>3. ASSUME NEW i \in start..stop
      PROVE  Value(i) = IF i <= H THEN i ELSE i - C
  <2>1. i \in Nat /\ C \in Nat /\ C > 0 /\ i >= L /\ i < H + C
    BY <1>1
  <2>2. CASE i < C
    <3>1. i % C = i
      BY <2>1, <2>2, OneCycle
    <3> QED
      BY <1>1, <2>1, <2>2, <3>1
  <2>3. CASE i >= C
    <3>1. i \in C..2*C-1
      BY <1>1, <2>1, <2>3
    <3>2. i % C = i - C
      BY <2>1, <3>1, OneCycle
    <3> QED
      BY <1>1, <2>1, <2>3, <3>2
  <2> QED
    BY <2>1, <2>2, <2>3
<1>4. run \subseteq start..stop /\ start..stop \subseteq L..(H + C - 1)
  <2>1. run \subseteq start..stop
    BY DEF Run
  <2>2. start..stop \subseteq L..(H + C - 1)
    BY <1>1
  <2> QED
    BY <2>1, <2>2
<1> HIDE DEF Value, run
<1>5. {Value(i) : i \in run} = {IF i <= H THEN i ELSE i - C : i \in run}
  BY <1>3, <1>4
<1>6. AddToSet(field, term.val, term.end, term.incr) =
        {IF i <= H THEN i ELSE i - C : i \in run} \union (IF term.incr <= 0 THEN {AllSpec} ELSE {})
  BY <1>2, <1>5
<1>7. run \subseteq L..(H + C - 1)
  BY <1>4
<1> QED
  BY <1>6, <1>7 DEF C, L, H, stop, start, run

\* The values that one call of addToSet adds are those its term means.
LEMMA AddToSetMeans ==
  ASSUME NEW field \in CycleFields, NEW term \in ScannedTerm, NEW v \in Low(field)..High(field),
         InBounds(field, term.val, term.end, term.incr), term.val # NoSpec
  PROVE  v \in AddToSet(field, term.val, term.end, term.incr) <=> TermMeans(field, term, v)
<1> DEFINE start == StartAt(field, term.val)
           to == StopAt(field, term.end)
           C == Cycle(field)
           step == StepOf(term.incr)
<1>1. /\ C \in Nat /\ C > 0 /\ start \in Low(field)..High(field) /\ to \in Nat
      /\ v \in Int /\ start \in Int /\ C = High(field) - Low(field) + 1
      /\ Low(field) \in {0, 1} /\ High(field) \in Nat
      /\ step \in Int /\ step > 0 /\ term.val \in Nat /\ term.incr \in Int /\ term.incr >= -1
  BY FieldCycle DEF ScannedTerm, StartAt, StopAt, StepOf, InBounds, CycleFields, Fields
<1>2. CASE term.incr \in {0, -1} /\ term.val # AllSpec
  <2>1. AddToSet(field, term.val, term.end, term.incr) = {term.val}
    BY <1>2 DEF AddToSet
  <2>2. TermMeans(field, term, v) <=> v \in term.val..term.val /\ (v - term.val) % 1 = 0
    BY <1>1, <1>2 DEF TermMeans
  <2> QED
    BY <1>1, <2>1, <2>2
<1>3. CASE ~(term.incr \in {0, -1} /\ term.val # AllSpec)
  <2>1. ~(term.incr <= 0 /\ term.val # AllSpec)
    BY <1>1, <1>3
  <2>2. TermMeans(field, term, v) <=>
          IF start <= to
          THEN v \in start..to /\ (v - start) % step = 0
          ELSE (v - start) % C <= (to - start) % C /\ ((v - start) % C) % step = 0
    BY <2>1 DEF TermMeans, StartAt, StopAt, StepOf
  <2>3. CASE start <= to
    <3>1. AddToSet(field, term.val, term.end, term.incr) =
            Run(start, to, term.incr) \union (IF term.incr <= 0 THEN {AllSpec} ELSE {})
      <4>1. field \in Fields /\ Low(field) \in Nat /\ High(field) \in Nat
        BY <1>1 DEF CycleFields
      <4> QED
        BY <1>3, <2>3, <4>1, AddedInOrder
    <3>2. v # AllSpec
      BY FieldCycle DEF AllSpec, NoSpec
    <3> QED
      BY <2>2, <2>3, <3>1, <3>2 DEF Run
  <2>4. CASE to < start
    <3>1. v \in AddToSet(field, term.val, term.end, term.incr) <=>
            \/ v \in start..(to + C) /\ (v - start) % step = 0
            \/ v + C \in start..(to + C) /\ (v + C - start) % step = 0
      <4> DEFINE H == High(field)
                 run == Run(start, to + C, term.incr)
      <4>1. /\ AddToSet(field, term.val, term.end, term.incr) =
                 {IF i <= H THEN i ELSE i - C : i \in run}
                   \union (IF term.incr <= 0 THEN {AllSpec} ELSE {})
            /\ run \subseteq Low(field)..(H + C - 1)
        BY <1>1, <1>3, <2>4, AddedOverEnd
      <4>2. v # AllSpec
        BY FieldCycle DEF AllSpec, NoSpec
      <4> HIDE DEF run
      <4>3. v \in AddToSet(field, term.val, term.end, term.incr) <=> v \in run \/ v + C \in run
        <5> DEFINE W(i) == IF i <= H THEN i ELSE i - C
                   A == AddToSet(field, term.val, term.end, term.incr)
        <5>1. ASSUME NEW i \in run, v = W(i) PROVE i = v \/ i = v + C
          BY <1>1, <4>1, <5>1
        <5>2. v = W(v) /\ v = W(v + C)
          BY <1>1
        <5>3. A = {W(i) : i \in run} \union (IF term.incr <= 0 THEN {AllSpec} ELSE {})
          BY <4>1
        <5> HIDE DEF W, A
        <5>4. v \in A <=> \E i \in run : v = W(i)
          BY <4>2, <5>3
        <5>5. v \in A <=> v \in run \/ v + C \in run
          BY <5>1, <5>2, <5>4
        <5> QED
          BY <5>5 DEF A
      <4> QED
        BY <1>1, <4>3 DEF run, Run
    <3>2. (to - start) % C = to - start + C
      <4>1. to - start \in Int /\ to - start \in -C..-1
        BY <1>1, <2>4
      <4> QED
        BY <1>1, <4>1, OneCycle
    <3>3. CASE v >= start
      <4>1. v - start \in Int /\ v - start \in 0..C-1
        BY <1>1, <3>3
      <4>2. (v - start) % C = v - start
        BY <1>1, <4>1, OneCycle
      <4>3. v + C \notin start..(to + C) /\ (v \in start..(to + C) <=> v - start <= to - start + C)
        BY <1>1, <2>4, <3>3
      <4> QED
        BY <1>1, <2>2, <2>4, <3>1, <3>2, <4>2, <4>3
    <3>4. CASE v < start
      <4>1. v - start \in Int /\ v - start \in -C..-1 /\ v - start + C = v + C - start
        BY <1>1, <3>4
      <4>2. (v - start) % C = v + C - start
        BY <1>1, <4>1, OneCycle
      <4>3. /\ v \notin start..(to + C)
            /\ v + C \in start..(to + C) <=> v + C - start <= to - start + C
        BY <1>1, <2>4, <3>4, <4>1
      <4> QED
        BY <1>1, <2>2, <2>4, <3>1, <3>2, <4>2, <4>3
    <3> QED
      BY <1>1, <3>3, <3>4
  <2> QED
    BY <1>1, <2>3, <2>4
<1> QED
  BY <1>2, <1>3

-----------------------------------------------------------------------------
(* The constructor *)

\* The scanned terms of a text
LEMMA TextScanned ==
  ASSUME NEW t \in Texts, NEW field \in CycleFields, NEW i \in DOMAIN t[field]
  PROVE  t[field][i] \in ScannedTerm
BY CronAssumption DEF CycleFields, Fields, ScannedTerm

\* A field of accepted numbers holds what the field means.
LEMMA FieldSetMeans ==
  ASSUME text \in Texts, Accepted, NEW field \in CycleFields, NEW v \in Low(field)..High(field),
         \A i \in DOMAIN text[field] :
           text[field][i].form = "numbers" /\ text[field][i].val # NoSpec
  PROVE  v \in FieldSet(field) <=> FieldMeans(field, text[field], v)
<1>1. TermsOf(field) = text[field]
  BY DEF TermsOf, CycleFields
<1>2. ASSUME NEW i \in DOMAIN text[field]
      PROVE  v \in TermValues(field, text[field][i]) <=> TermMeans(field, text[field][i], v)
  <2> DEFINE term == text[field][i]
  <2>1. term \in ScannedTerm /\ term.form = "numbers" /\ term.val # NoSpec
    BY <1>2, TextScanned
  <2>2. TermAccepted(field, term)
    BY <1>1, <1>2 DEF Accepted, CycleFields
  <2> HIDE DEF term
  <2>3. InBounds(field, term.val, term.end, term.incr)
    BY <2>1, <2>2 DEF TermAccepted
  <2>4. TermValues(field, term) = AddToSet(field, term.val, term.end, term.incr)
    BY <2>1 DEF TermValues
  <2>5. v \in TermValues(field, term) <=> TermMeans(field, term, v)
    BY <2>1, <2>3, <2>4, AddToSetMeans
  <2> QED
    BY <2>5 DEF term
<1> QED
  BY <1>1, <1>2 DEF FieldSet, FieldMeans

\* The object is what the constructor has made of an expression it accepts.
Constructed ==
  /\ text \in Texts
  /\ pc \in {"search", "found", "none"} => Accepted /\ expr = Built

\* No step of the search changes what was constructed.
LEMMA ConstructedStep == Constructed /\ [Next]_vars => Constructed'
<1> SUFFICES ASSUME Constructed, [Next]_vars PROVE Constructed'
  OBVIOUS
<1>1. text' = text
  BY DEF Next, Build, Reject, Search, BeyondEndless, NextMinute, NextHour, NextDay,
         BeyondMaxYear, NextMonth, NextYear, RanOutOfYears, Found, Throw, MoveTo, End, vars
<1>2. Accepted' = Accepted /\ Built' = Built
  BY <1>1 DEF Accepted, Built, DaysAccepted, FieldSet, TermsOf, Argument
<1>3. CASE Build
  BY <1>1, <1>2, <1>3 DEF Build, Constructed
<1>4. CASE Reject
  BY <1>1, <1>4 DEF Reject, Constructed
<1>5. CASE Search
  <2>1. pc = "search" /\ expr' = expr
    BY <1>5 DEF Search, BeyondEndless, NextMinute, NextHour, NextDay, BeyondMaxYear,
         NextMonth, NextYear, RanOutOfYears, Found, Throw, MoveTo, End, Looping
  <2> QED
    BY <1>1, <1>2, <2>1 DEF Constructed
<1>6. CASE UNCHANGED vars
  BY <1>1, <1>2, <1>6 DEF vars, Constructed
<1> QED
  BY <1>3, <1>4, <1>5, <1>6 DEF Next

\* Whatever the expression, the sets the search works with hold the values the expression
\* means: single values, steps, ranges, ranges over the end of the cycle, lists of them.
THEOREM SetsHoldWhatIsMeant == Spec => []FieldsMean
<1>1. Init => Constructed
  BY DEF Init, Constructed
<1>2. Constructed => FieldsMean
  <2> SUFFICES ASSUME Constructed, pc \in {"search", "found", "none"},
                      NEW field \in CycleFields,
                      \A i \in DOMAIN text[field] :
                        text[field][i].form = "numbers" /\ text[field][i].val # NoSpec,
                      NEW v \in Low(field)..High(field)
               PROVE  v \in GetSet(field) <=> FieldMeans(field, text[field], v)
    BY DEF FieldsMean, CycleFields
  <2>1. GetSet(field) = FieldSet(field)
    BY DEF Constructed, GetSet, Built, CycleFields, Fields
  <2> QED
    BY <2>1, FieldSetMeans DEF Constructed
<1> QED
  BY <1>1, <1>2, ConstructedStep, PTL DEF Spec

-----------------------------------------------------------------------------
(* Integers: division, and the least number of a set *)

\* Quotient and remainder are determined by the division.
LEMMA Division ==
  ASSUME NEW b \in Nat, b > 0, NEW q \in Int, NEW r \in 0..b-1, NEW x \in Int, x = b * q + r
  PROVE  x \div b = q /\ x % b = r
<1> DEFINE p == x \div b
           s == x % b
<1>1. p \in Int /\ x = b * p + s /\ s \in 0..b-1
  OBVIOUS
<1> HIDE DEF p, s
<1>2. b * (p - q) = r - s
  BY <1>1
<1>3. p = q
  <2>1. CASE p >= q + 1
    <3>1. b * (p - q) >= b
      BY <1>1, <2>1
    <3> QED
      BY <1>1, <1>2, <3>1
  <2>2. CASE p <= q - 1
    <3>1. b * (p - q) <= -b
      BY <1>1, <2>2
    <3> QED
      BY <1>1, <1>2, <3>1
  <2> QED
    BY <1>1, <2>1, <2>2
<1> QED
  BY <1>1, <1>3 DEF p, s

\* What a division leaves
LEMMA Divided ==
  ASSUME NEW b \in Nat, b > 0, NEW x \in Int
  PROVE  x \div b \in Int /\ x = b * (x \div b) + (x % b) /\ x % b \in 0..b-1
OBVIOUS

\* What is not negative has a quotient that is not.
LEMMA QuotientOfNat ==
  ASSUME NEW b \in Nat, b > 0, NEW x \in Nat
  PROVE  x \div b \in Nat
<1> DEFINE q == x \div b
           r == x % b
<1>1. q \in Int /\ r \in 0..b-1 /\ x = b * q + r
  BY Divided
<1> HIDE DEF q, r
<1>2. ASSUME q <= -1 PROVE FALSE
  <2>1. b * q <= -b
    BY <1>1, <1>2
  <2> QED
    BY <1>1, <2>1
<1>3. q \in Nat
  BY <1>1, <1>2
<1> QED
  BY <1>3 DEF q

\* A quotient is below k just if the number is below k divisors.
LEMMA QuotientBelow ==
  ASSUME NEW b \in Nat, b > 0, NEW x \in Int, NEW k \in Int
  PROVE  /\ x \div b < k <=> x < k * b
         /\ x \div b >= k <=> x >= k * b
<1> DEFINE q == x \div b
           r == x % b
<1>1. q \in Int /\ r \in 0..b-1 /\ x = b * q + r
  BY Divided
<1> HIDE DEF q, r
<1>2. CASE q < k
  <2>1. b * (k - q) >= b
    BY <1>1, <1>2
  <2>2. b * (k - q) = k * b - b * q
    BY <1>1
  <2>3. k * b \in Int /\ b * q \in Int
    BY <1>1
  <2>4. x < k * b
    BY <1>1, <2>1, <2>2, <2>3
  <2> QED
    BY <1>1, <1>2, <2>4, <2>3 DEF q
<1>3. CASE q >= k
  <2>1. b * (q - k) >= 0
    BY <1>1, <1>3
  <2>2. b * (q - k) = b * q - k * b
    BY <1>1
  <2>3. k * b \in Int /\ b * q \in Int
    BY <1>1
  <2>4. x >= k * b
    BY <1>1, <2>1, <2>2, <2>3
  <2> QED
    BY <1>1, <1>3, <2>4, <2>3 DEF q
<1> QED
  BY <1>1, <1>2, <1>3

\* A set of numbers that is not empty has a least one.
LEMMA LeastOf ==
  ASSUME NEW S \in SUBSET Nat, S # {}
  PROVE  Min(S) \in S /\ \A n \in S : Min(S) <= n
<1>1. IsWellFoundedOn(OpToRel(<, Nat), Nat)
  BY NatLessThanWellFounded
<1>2. PICK m \in S : \A n \in S : ~(<<n, m>> \in OpToRel(<, Nat))
  BY <1>1, WFMin
<1>3. \A n \in S : n < m => <<n, m>> \in OpToRel(<, Nat)
  BY DEF OpToRel
<1>4. \A n \in S : ~(n < m)
  BY <1>2, <1>3, Zenon
<1>5. \A n \in S : n \in Nat /\ m \in Nat
  OBVIOUS
<1>6. \E k \in S : \A n \in S : k <= n
  BY <1>4, <1>5
<1> QED
  BY <1>6 DEF Min

-----------------------------------------------------------------------------
(* The clock: seconds, minutes, hours and days of an instant *)

\* A number in units of u * m, in units of u within these, and the rest
LEMMA TwoPlaces ==
  ASSUME NEW u \in Nat, u > 0, NEW m \in Nat, m > 0, NEW x \in Int
  PROVE  /\ u * m \in Nat /\ u * m > 0
         /\ x \div (u * m) = (x \div u) \div m
         /\ (x % (u * m)) \div u = (x \div u) % m
         /\ (x % (u * m)) % u = x % u
<1> DEFINE y == x \div u
           r == x % u
           q == y \div m
           p == y % m
           b == u * m
           z == u * p + r
<1>1. y \in Int /\ x = u * y + r /\ r \in 0..u-1
  BY Divided
<1>2. q \in Int /\ y = m * q + p /\ p \in 0..m-1
  <2> HIDE DEF y
  <2> QED
    BY <1>1, Divided
<1>3. b \in Nat /\ b > 0
  OBVIOUS
<1> HIDE DEF y, r, q, p
<1>4. u * p \in Nat /\ u * p <= u * (m - 1) /\ u * (m - 1) = b - u
  <2>1. u * p \in Nat
    BY <1>2
  <2>2. u * (m - 1 - p) \in Nat
    BY <1>2
  <2>3. u * (m - 1 - p) = u * (m - 1) - u * p /\ u * (m - 1) = b - u
    BY <1>2
  <2> QED
    BY <1>3, <2>1, <2>2, <2>3
<1>5. z \in 0..b-1
  BY <1>1, <1>3, <1>4
<1>6. x = b * q + z
  BY <1>1, <1>2
<1> HIDE DEF b
<1>7. x \div b = q /\ x % b = z
  <2> HIDE DEF z
  <2> QED
    BY <1>2, <1>3, <1>5, <1>6, Division
<1>8. z \div u = p /\ z % u = r
  BY <1>1, <1>2, <1>4, Division
<1> QED
  BY <1>3, <1>7, <1>8 DEF b, y, r, q, p

\* The units of the clock
LEMMA ClockUnits ==
  /\ SecondsPerMinute \in Nat /\ SecondsPerMinute > 0
  /\ MinutesPerHour \in Nat /\ MinutesPerHour > 0
  /\ HoursPerDay \in Nat /\ HoursPerDay > 0
  /\ SecondsPerHour \in Nat /\ SecondsPerHour > 0
  /\ SecondsPerDay \in Nat /\ SecondsPerDay > 0
<1>1. /\ SecondsPerMinute \in Nat /\ SecondsPerMinute > 0
      /\ MinutesPerHour \in Nat /\ MinutesPerHour > 0
      /\ HoursPerDay \in Nat /\ HoursPerDay > 0
  BY CalendarAssumption
<1>2. SecondsPerHour \in Nat /\ SecondsPerHour > 0
  BY <1>1, TwoPlaces DEF SecondsPerHour
<1>3. SecondsPerDay \in Nat /\ SecondsPerDay > 0
  BY <1>1, <1>2, TwoPlaces DEF SecondsPerDay
<1> QED
  BY <1>1, <1>2, <1>3

\* The fields of the clock are counters, one within the other.
LEMMA ClockFields ==
  ASSUME NEW x \in Int
  PROVE  /\ Second(x) = x % SecondsPerMinute
         /\ Minute(x) = (x \div SecondsPerMinute) % MinutesPerHour
         /\ Hour(x) = (x \div SecondsPerHour) % HoursPerDay
         /\ DayNumber(x) = (x \div SecondsPerHour) \div HoursPerDay
         /\ x \div SecondsPerHour = (x \div SecondsPerMinute) \div MinutesPerHour
         /\ x % SecondsPerDay \in 0..SecondsPerDay-1
         /\ DayNumber(x) \in Int
         /\ x = SecondsPerDay * DayNumber(x) + (x % SecondsPerDay)
         /\ Second(x) \in 0..SecondsPerMinute-1
         /\ Minute(x) \in 0..MinutesPerHour-1
         /\ Hour(x) \in 0..HoursPerDay-1
<1>1. Second(x) = x % SecondsPerMinute /\ Second(x) \in 0..SecondsPerMinute-1
  BY ClockUnits, Divided DEF Second
<1>2. /\ Minute(x) = (x \div SecondsPerMinute) % MinutesPerHour
      /\ x \div SecondsPerHour = (x \div SecondsPerMinute) \div MinutesPerHour
  <2> DEFINE u == SecondsPerMinute
             m == MinutesPerHour
  <2> HIDE DEF u, m
  <2>1. u \in Nat /\ u > 0 /\ m \in Nat /\ m > 0 /\ SecondsPerHour = u * m
    BY ClockUnits DEF u, m, SecondsPerHour
  <2>2. x \div (u * m) = (x \div u) \div m /\ (x % (u * m)) \div u = (x \div u) % m
    BY <2>1, TwoPlaces
  <2>3. Minute(x) = (x % (u * m)) \div u /\ x \div SecondsPerHour = x \div (u * m)
    BY <2>1 DEF Minute, u
  <2> QED
    BY <2>2, <2>3 DEF u, m
<1>3. Minute(x) \in 0..MinutesPerHour-1
  <2> DEFINE y == x \div SecondsPerMinute
  <2>1. y \in Int
    BY ClockUnits, Divided
  <2>2. y % MinutesPerHour \in 0..MinutesPerHour-1
    BY <2>1, ClockUnits, Divided
  <2> QED
    BY <1>2, <2>2
<1>4. /\ Hour(x) = (x \div SecondsPerHour) % HoursPerDay
      /\ DayNumber(x) = (x \div SecondsPerHour) \div HoursPerDay
  <2> DEFINE u == SecondsPerHour
             m == HoursPerDay
  <2> HIDE DEF u, m
  <2>1. u \in Nat /\ u > 0 /\ m \in Nat /\ m > 0 /\ SecondsPerDay = u * m
    BY ClockUnits DEF u, m, SecondsPerDay
  <2>2. x \div (u * m) = (x \div u) \div m /\ (x % (u * m)) \div u = (x \div u) % m
    BY <2>1, TwoPlaces
  <2>3. Hour(x) = (x % (u * m)) \div u /\ DayNumber(x) = x \div (u * m)
    BY <2>1 DEF Hour, DayNumber, u
  <2> QED
    BY <2>2, <2>3 DEF u, m
<1>5. Hour(x) \in 0..HoursPerDay-1
  <2> DEFINE y == x \div SecondsPerHour
  <2>1. y \in Int
    BY ClockUnits, Divided
  <2>2. y % HoursPerDay \in 0..HoursPerDay-1
    BY <2>1, ClockUnits, Divided
  <2> QED
    BY <1>4, <2>2
<1>6. /\ x % SecondsPerDay \in 0..SecondsPerDay-1
      /\ DayNumber(x) \in Int
      /\ x = SecondsPerDay * DayNumber(x) + (x % SecondsPerDay)
  BY ClockUnits, Divided DEF DayNumber
<1> QED
  BY <1>1, <1>2, <1>3, <1>4, <1>5, <1>6

\* The fields of a time of day are those of the instant.
LEMMA TimeOfDay ==
  ASSUME NEW x \in Int
  PROVE  /\ x % SecondsPerDay \in Int
         /\ Second(x % SecondsPerDay) = Second(x)
         /\ Minute(x % SecondsPerDay) = Minute(x)
         /\ Hour(x % SecondsPerDay) = Hour(x)
<1> DEFINE t == x % SecondsPerDay
           h == x % SecondsPerHour
<1>1. t \in Int /\ t % SecondsPerDay = t
  <2>1. t \in 0..SecondsPerDay-1
    BY ClockUnits, Divided
  <2> QED
    BY <2>1, ClockUnits, OneCycle
<1>2. t % SecondsPerHour = h /\ h \in Int
  <2> DEFINE u == SecondsPerHour
             m == HoursPerDay
  <2> HIDE DEF u, m
  <2>1. u \in Nat /\ u > 0 /\ m \in Nat /\ m > 0 /\ SecondsPerDay = u * m
    BY ClockUnits DEF u, m, SecondsPerDay
  <2>2. (x % (u * m)) % u = x % u
    BY <2>1, TwoPlaces
  <2>3. x % u \in 0..u-1
    BY <2>1, Divided
  <2> QED
    BY <2>1, <2>2, <2>3 DEF u
<1>3. t % SecondsPerMinute = (t % SecondsPerHour) % SecondsPerMinute
  <2> HIDE DEF t
  <2> QED
    BY <1>1, ClockUnits, TwoPlaces DEF SecondsPerHour
<1>4. x % SecondsPerMinute = h % SecondsPerMinute
  BY ClockUnits, TwoPlaces DEF SecondsPerHour
<1> QED
  BY <1>1, <1>2, <1>3, <1>4 DEF Second, Minute, Hour

\* The day of an instant
LEMMA DayIsNumber ==
  ASSUME NEW x \in Nat
  PROVE  DayNumber(x) \in Nat
BY ClockUnits, QuotientOfNat DEF DayNumber

\* An instant's day is before another if the instant is before that day begins.
LEMMA DayBelow ==
  ASSUME NEW x \in Int, NEW k \in Int
  PROVE  DayNumber(x) < k <=> x < k * SecondsPerDay
BY ClockUnits, QuotientBelow DEF DayNumber

\* Later instants have later days.
LEMMA DaysInOrder ==
  ASSUME NEW x \in Int, NEW y \in Int, x <= y
  PROVE  DayNumber(x) <= DayNumber(y)
<1> SUFFICES ASSUME DayNumber(y) < DayNumber(x) PROVE FALSE
  BY ClockFields
<1> DEFINE d == DayNumber(x)
<1>1. d \in Int /\ ~(DayNumber(x) < d) /\ DayNumber(y) < d
  BY ClockFields
<1> HIDE DEF d
<1>2. y < d * SecondsPerDay /\ ~(x < d * SecondsPerDay)
  BY <1>1, DayBelow
<1>3. d * SecondsPerDay \in Int
  BY <1>1, ClockUnits
<1> QED
  BY <1>2, <1>3

\* Midnight
LEMMA DayBegins ==
  ASSUME NEW k \in Int
  PROVE  /\ k * SecondsPerDay \in Int
         /\ DayNumber(k * SecondsPerDay) = k
         /\ (k * SecondsPerDay) % SecondsPerDay = 0
<1> DEFINE z == k * SecondsPerDay
<1>1. z \in Int /\ z = SecondsPerDay * k + 0
  BY ClockUnits
<1> HIDE DEF z
<1>2. z \div SecondsPerDay = k /\ z % SecondsPerDay = 0
  BY <1>1, ClockUnits, Division
<1> QED
  BY <1>1, <1>2 DEF z, DayNumber

\* An instant made of a day and a time of day
LEMMA DayAndTime ==
  ASSUME NEW n \in Int, NEW t \in 0..SecondsPerDay-1
  PROVE  /\ n * SecondsPerDay + t \in Int
         /\ DayNumber(n * SecondsPerDay + t) = n
         /\ (n * SecondsPerDay + t) % SecondsPerDay = t
<1> DEFINE z == n * SecondsPerDay + t
<1>1. z \in Int /\ z = SecondsPerDay * n + t
  BY ClockUnits
<1> HIDE DEF z
<1>2. z \div SecondsPerDay = n /\ z % SecondsPerDay = t
  BY <1>1, ClockUnits, Division
<1> QED
  BY <1>1, <1>2 DEF z, DayNumber

-----------------------------------------------------------------------------
(* Sets of values of a field *)

\* A set of a field: values of the field, or all of them and a marker
Shaped(S, lo, hi) == S # {} /\ S \subseteq Nat /\ (S \subseteq lo..hi \/ lo..hi \subseteq S)

\* The code finds the next value of a set, or the first and a carry.
LEMMA FollowingValue ==
  ASSUME NEW lo \in Nat, NEW hi \in Nat, NEW S, Shaped(S, lo, hi), NEW v \in lo..hi
  PROVE  /\ Following(S, v) \in S /\ Following(S, v) \in lo..hi
         /\ \/ Carry(S, v) = 0 /\ Following(S, v) >= v /\ \A s \in S : s >= v => s >= Following(S, v)
            \/ Carry(S, v) = 1 /\ \A s \in S : s < v /\ s >= Following(S, v)
         /\ v \in S <=> Following(S, v) = v /\ Carry(S, v) = 0
<1> DEFINE tail == TailSet(S, v)
           f == Following(S, v)
<1>1. S \in SUBSET Nat /\ tail \in SUBSET Nat /\ v \in Nat
  <2>1. S \subseteq Nat
    BY DEF Shaped
  <2>2. tail \subseteq S
    BY DEF TailSet
  <2> HIDE DEF tail
  <2>3. v \in Nat
    OBVIOUS
  <2>4. S \in SUBSET Nat
    BY <2>1
  <2>5. tail \in SUBSET Nat
    BY <2>1, <2>2
  <2> QED
    BY <2>3, <2>4, <2>5
<1>2. CASE tail = {}
  <2>1. f = Min(S) /\ Carry(S, v) = 1
    BY <1>2 DEF Following, Carry, Wraps
  <2>2. f \in S /\ \A s \in S : f <= s
    BY <1>1, <2>1, LeastOf DEF Shaped
  <2>3. \A s \in S : s < v
    BY <1>1, <1>2 DEF TailSet
  <2>4. S \subseteq lo..hi
    BY <2>3 DEF Shaped
  <2> HIDE DEF f
  <2>5. f \in lo..hi /\ \A s \in S : s >= f
    BY <1>1, <2>2, <2>4
  <2>6. v \notin S /\ Carry(S, v) # 0
    BY <1>1, <2>1, <2>3
  <2> QED
    BY <2>1, <2>2, <2>3, <2>5, <2>6 DEF f
<1>3. CASE tail # {}
  <2>1. f = Min(tail) /\ Carry(S, v) = 0
    BY <1>3 DEF Following, Carry, Wraps
  <2>2. f \in tail /\ \A s \in tail : f <= s
    BY <1>1, <1>3, <2>1, LeastOf
  <2> HIDE DEF f
  <2>3. f \in S /\ f >= v /\ \A s \in S : s >= v => s >= f
    BY <1>1, <2>2 DEF TailSet
  <2>4. v \in S => f = v
    BY <1>1, <2>3
  <2>5. f \in lo..hi
    <3>1. CASE S \subseteq lo..hi
      BY <2>3, <3>1
    <3>2. CASE lo..hi \subseteq S
      BY <2>4, <3>2
    <3> QED
      BY <3>1, <3>2 DEF Shaped
  <2> QED
    BY <2>1, <2>3, <2>4, <2>5 DEF f
<1> QED
  BY <1>2, <1>3

\* Where a counter that has a place of m values moves to when it looks for one of S
Advanced(S, m, y) == y - (y % m) + Following(S, y % m) + Carry(S, y % m) * m

\* A counter that is advanced comes to a value of the set and passes none.
LEMMA Advance ==
  ASSUME NEW m \in Nat, m > 0, NEW y \in Int, NEW S, Shaped(S, 0, m - 1)
  PROVE  /\ Advanced(S, m, y) \in Int /\ y <= Advanced(S, m, y) /\ Advanced(S, m, y) < y + m
         /\ Advanced(S, m, y) % m \in S
         /\ \A z \in y..Advanced(S, m, y)-1 : z % m \notin S
         /\ y % m \in S <=> Advanced(S, m, y) = y
<1> DEFINE q == y \div m
           p == y % m
           f == Following(S, p)
           c == Carry(S, p)
           Y == Advanced(S, m, y)
<1>1. q \in Int /\ y = m * q + p /\ p \in 0..m-1 /\ m - 1 \in Nat /\ 0 \in Nat
  BY Divided
<1>2. /\ f \in S /\ f \in 0..m-1
      /\ \/ c = 0 /\ f >= p /\ \A s \in S : s >= p => s >= f
         \/ c = 1 /\ \A s \in S : s < p /\ s >= f
      /\ p \in S <=> f = p /\ c = 0
  <2> HIDE DEF p
  <2> QED
    BY <1>1, FollowingValue
<1>3. Y = m * (q + c) + f
  <2>1. Y = y - p + f + c * m
    BY DEF Advanced
  <2> HIDE DEF Y, q, p, f, c
  <2> QED
    BY <1>1, <1>2, <2>1
<1> HIDE DEF Y, q, p, f, c
<1>4. c \in {0, 1} /\ q + c \in Int /\ Y \in Int
  BY <1>1, <1>2, <1>3
<1>5. Y % m = f
  BY <1>2, <1>3, <1>4, Division
<1>6. Y = y - p + f + c * m
  BY <1>1, <1>2, <1>3
<1>7. y <= Y /\ Y < y + m /\ (p \in S <=> Y = y)
  BY <1>1, <1>2, <1>6
<1>8. ASSUME NEW z \in y..Y-1 PROVE z % m \notin S
  <2> DEFINE g == z \div m
             r == z % m
  <2>1. g \in Int /\ z = m * g + r /\ r \in 0..m-1
    BY Divided
  <2> HIDE DEF g, r
  <2>2. ASSUME g <= q - 1 PROVE FALSE
    <3>1. m * (q - g) >= m
      BY <1>1, <2>1, <2>2
    <3> QED
      BY <1>1, <2>1, <3>1
  <2>3. ASSUME g >= q + 2 PROVE FALSE
    <3>1. m * (g - q) >= 2 * m
      BY <1>1, <2>1, <2>3
    <3> QED
      BY <1>1, <1>2, <1>6, <2>1, <3>1
  <2>4. CASE g = q
    <3>1. r >= p
      BY <1>1, <2>1, <2>4
    <3>2. c = 0 => r < f
      BY <1>1, <1>2, <1>6, <2>1, <2>4
    <3> QED
      BY <1>1, <1>2, <2>1, <3>1, <3>2 DEF r
  <2>5. CASE g = q + 1
    <3>1. m * g = m * q + m
      BY <1>1, <2>5
    <3>2. z = y - p + m + r
      BY <1>1, <2>1, <3>1
    <3>3. c = 1 /\ r < f
      BY <1>1, <1>2, <1>6, <2>1, <3>2
    <3> QED
      BY <1>2, <2>1, <3>3 DEF r
  <2> QED
    BY <1>1, <2>1, <2>2, <2>3, <2>4, <2>5
<1> QED
  BY <1>2, <1>4, <1>5, <1>7, <1>8 DEF Y, p

-----------------------------------------------------------------------------
(* The calendar: months and their days *)

\* The number of multiples of k up to a number grows at its multiples.
LEMMA MultiplesUpTo ==
  ASSUME NEW k \in Nat, k > 1, NEW x \in Int
  PROVE  x \div k = (x - 1) \div k + IF x % k = 0 THEN 1 ELSE 0
<1> DEFINE q == x \div k
           r == x % k
           y == x - 1
<1>1. q \in Int /\ x = k * q + r /\ r \in 0..k-1
  BY Divided
<1>2. y \in Int
  OBVIOUS
<1> HIDE DEF q, r, y
<1>3. CASE r = 0
  <2>1. y = k * (q - 1) + (k - 1)
    BY <1>1, <1>3 DEF y
  <2>2. y \div k = q - 1
    BY <1>1, <1>2, <2>1, Division
  <2> QED
    BY <1>1, <1>3, <2>2 DEF q, r, y
<1>4. CASE r # 0
  <2>1. y = k * q + (r - 1) /\ r - 1 \in 0..k-1
    BY <1>1, <1>4 DEF y
  <2>2. y \div k = q
    BY <1>1, <1>2, <2>1, Division
  <2> QED
    BY <1>1, <1>4, <2>2 DEF q, r, y
<1> QED
  BY <1>3, <1>4

\* Multiples of 400 are multiples of 100, and these of 4.
LEMMA CommonMultiples ==
  ASSUME NEW x \in Int
  PROVE  /\ x % 400 = 0 => x % 100 = 0
         /\ x % 100 = 0 => x % 4 = 0
<1> DEFINE p == x \div 400
           q == x \div 100
<1>1. p \in Int /\ x = 400 * p + (x % 400) /\ q \in Int /\ x = 100 * q + (x % 100)
  BY Divided
<1> HIDE DEF p, q
<1>2. x % 400 = 0 => x = 100 * (4 * p) + 0
  BY <1>1
<1>3. x % 100 = 0 => x = 4 * (25 * q) + 0
  BY <1>1
<1>4. 4 * p \in Int /\ 25 * q \in Int
  BY <1>1
<1>5. x % 400 = 0 => x % 100 = 0
  BY <1>2, <1>4, Division
<1>6. x % 100 = 0 => x % 4 = 0
  BY <1>3, <1>4, Division
<1> QED
  BY <1>5, <1>6

\* The length of a year
LEMMA YearLength ==
  ASSUME NEW y \in Int
  PROVE  /\ DaysBeforeYear(y) \in Int
         /\ DaysBeforeYear(y + 1) = DaysBeforeYear(y) + 365 + IF IsLeapYear(y) THEN 1 ELSE 0
<1> DEFINE a == (y - 1) \div 4
           b == (y - 1) \div 100
           c == (y - 1) \div 400
           D(z) == IF y % z = 0 THEN 1 ELSE 0
<1>1. a \in Int /\ b \in Int /\ c \in Int
  BY Divided
<1>2. y \div 4 = a + D(4) /\ y \div 100 = b + D(100) /\ y \div 400 = c + D(400)
  BY MultiplesUpTo
<1>3. D(4) - D(100) + D(400) = IF IsLeapYear(y) THEN 1 ELSE 0
  BY CommonMultiples DEF IsLeapYear
<1>4. DaysBeforeYear(y) = 365 * (y - 1) + a - b + c
  BY DEF DaysBeforeYear
<1>5. DaysBeforeYear(y + 1) = 365 * y + y \div 4 - y \div 100 + y \div 400
  <2>1. (y + 1) - 1 = y
    OBVIOUS
  <2> QED
    BY <2>1 DEF DaysBeforeYear
<1>6. D(4) \in Int /\ D(100) \in Int /\ D(400) \in Int
  OBVIOUS
<1> HIDE DEF a, b, c, D
<1>7. DaysBeforeYear(y + 1) = DaysBeforeYear(y) + 365 + (D(4) - D(100) + D(400))
  BY <1>1, <1>2, <1>4, <1>5, <1>6
<1> QED
  BY <1>1, <1>3, <1>4, <1>7

\* Later years start later.
LEMMA YearsInOrder ==
  ASSUME NEW y \in Int, NEW z \in Int, y <= z
  PROVE  DaysBeforeYear(y) <= DaysBeforeYear(z)
<1> DEFINE a == (y - 1) \div 4
           b == (y - 1) \div 100
           c == (y - 1) \div 400
           d == (z - 1) \div 4
           e == (z - 1) \div 100
           f == (z - 1) \div 400
<1>1. /\ a \in Int /\ 4 * a <= y - 1 /\ y - 1 < 4 * a + 4
      /\ b \in Int /\ 100 * b <= y - 1 /\ y - 1 < 100 * b + 100
      /\ c \in Int /\ 400 * c <= y - 1 /\ y - 1 < 400 * c + 400
  BY Divided
<1>2. /\ d \in Int /\ 4 * d <= z - 1 /\ z - 1 < 4 * d + 4
      /\ e \in Int /\ 100 * e <= z - 1 /\ z - 1 < 100 * e + 100
      /\ f \in Int /\ 400 * f <= z - 1 /\ z - 1 < 400 * f + 400
  BY Divided
<1>3. /\ DaysBeforeYear(y) = 365 * (y - 1) + a - b + c
      /\ DaysBeforeYear(z) = 365 * (z - 1) + d - e + f
  BY DEF DaysBeforeYear
<1> HIDE DEF a, b, c, d, e, f
<1>4. CASE y + 1 <= z
  <2>1. a <= d /\ c <= f
    BY <1>1, <1>2
  <2>2. 100 * (e - b) <= z - y + 99
    BY <1>1, <1>2
  <2>3. e - b <= 365 * (z - y)
    BY <1>1, <1>2, <1>4, <2>2
  <2> QED
    BY <1>1, <1>2, <1>3, <2>1, <2>3
<1>5. CASE y = z
  <2>1. DaysBeforeYear(y) \in Int
    BY YearLength
  <2> QED
    BY <1>5, <2>1
<1> QED
  BY <1>4, <1>5

\* The lengths of the months add up.
LEMMA MonthLength ==
  ASSUME NEW y, NEW m \in 1..12
  PROVE  /\ DaysBeforeMonth(1, y) = 0
         /\ DaysBeforeMonth(13, y) = 365 + IF IsLeapYear(y) THEN 1 ELSE 0
         /\ DaysBeforeMonth(m, y) \in Nat
         /\ LastDayOfMonth(m, y) \in 28..31
         /\ DaysBeforeMonth(m + 1, y) = DaysBeforeMonth(m, y) + LastDayOfMonth(m, y)
<1> DEFINE leap == IF IsLeapYear(y) THEN 1 ELSE 0
<1>1. leap \in {0, 1} /\ (IsLeapYear(y) <=> leap = 1)
  OBVIOUS
<1> HIDE DEF leap
<1>2. /\ DaysBeforeMonth(1, y) = 0
      /\ DaysBeforeMonth(2, y) = 31
      /\ DaysBeforeMonth(3, y) = 59 + leap
      /\ DaysBeforeMonth(4, y) = 90 + leap
      /\ DaysBeforeMonth(5, y) = 120 + leap
      /\ DaysBeforeMonth(6, y) = 151 + leap
      /\ DaysBeforeMonth(7, y) = 181 + leap
      /\ DaysBeforeMonth(8, y) = 212 + leap
      /\ DaysBeforeMonth(9, y) = 243 + leap
      /\ DaysBeforeMonth(10, y) = 273 + leap
      /\ DaysBeforeMonth(11, y) = 304 + leap
      /\ DaysBeforeMonth(12, y) = 334 + leap
      /\ DaysBeforeMonth(13, y) = 365 + leap
  BY <1>1 DEF DaysBeforeMonth
<1>3. LastDayOfMonth(m, y) = IF m = 2 THEN 28 + leap ELSE IF m \in {4, 6, 9, 11} THEN 30 ELSE 31
  BY <1>1 DEF LastDayOfMonth
<1>4. m \in {1, 2, 3, 4, 5, 6, 7, 8, 9, 10, 11, 12}
  OBVIOUS
<1> QED
  BY <1>1, <1>2, <1>3, <1>4 DEF leap

\* Later months of a year start later.
LEMMA MonthsInOrder ==
  ASSUME NEW y, NEW m \in 1..12, NEW k \in 1..13, m < k
  PROVE  DaysBeforeMonth(m, y) + LastDayOfMonth(m, y) <= DaysBeforeMonth(k, y)
<1> DEFINE B(j) == DaysBeforeMonth(j, y)
<1>1. \A j \in 1..12 : B(j) \in Nat /\ B(j + 1) >= B(j) + 28
  BY MonthLength
<1>2. B(m + 1) = B(m) + LastDayOfMonth(m, y)
  BY MonthLength
<1>3. /\ B(1) <= B(2) /\ B(2) <= B(3) /\ B(3) <= B(4) /\ B(4) <= B(5) /\ B(5) <= B(6)
      /\ B(6) <= B(7) /\ B(7) <= B(8) /\ B(8) <= B(9) /\ B(9) <= B(10) /\ B(10) <= B(11)
      /\ B(11) <= B(12) /\ B(12) <= B(13)
  <2>1. \A j \in 1..12 : B(j) <= B(j + 1)
    <3> SUFFICES ASSUME NEW j \in 1..12 PROVE B(j) <= B(j + 1)
      OBVIOUS
    <3>1. B(j) \in Nat /\ LastDayOfMonth(j, y) \in 28..31 /\ B(j + 1) = B(j) + LastDayOfMonth(j, y)
      BY MonthLength
    <3> HIDE DEF B
    <3> QED
      BY <3>1
  <2> HIDE DEF B
  <2>2. B(1) <= B(1 + 1) /\ B(2) <= B(2 + 1) /\ B(3) <= B(3 + 1) /\ B(4) <= B(4 + 1)
    BY <2>1
  <2>3. B(5) <= B(5 + 1) /\ B(6) <= B(6 + 1) /\ B(7) <= B(7 + 1) /\ B(8) <= B(8 + 1)
    BY <2>1
  <2>4. B(9) <= B(9 + 1) /\ B(10) <= B(10 + 1) /\ B(11) <= B(11 + 1) /\ B(12) <= B(12 + 1)
    BY <2>1
  <2> QED
    BY <2>2, <2>3, <2>4
<1>4. \A j \in 1..13 : B(j) \in Nat
  <2>1. B(13) \in Nat
    BY MonthLength
  <2>2. \A j \in 1..12 : B(j) \in Nat
    BY MonthLength
  <2> QED
    BY <2>1, <2>2
<1> HIDE DEF B
<1>5. B(m + 1) <= B(k)
  <2>1. m + 1 \in 2..13 /\ k \in m+1..13
    OBVIOUS
  <2> QED
    BY <1>3, <1>4, <2>1
<1> QED
  BY <1>2, <1>5 DEF B

\* The firsts of months
LEMMA MonthStarts ==
  ASSUME NEW y \in CalendarYears, NEW m \in 1..12
  PROVE  /\ y \in Int /\ y >= FirstYear /\ y <= LastYear
         /\ MonthStart[y][13] \in Nat
         /\ MonthStart[y][m] \in Nat
         /\ LastDayOfMonth(m, y) \in 28..31
         /\ MonthStart[y][m + 1] = MonthStart[y][m] + LastDayOfMonth(m, y)
         /\ MonthStart[FirstYear][1] = 0
         /\ FirstYear \in CalendarYears
         /\ \A k \in 1..13 : m < k => MonthStart[y][m] + LastDayOfMonth(m, y) <= MonthStart[y][k]
         /\ \A z \in CalendarYears : y < z => MonthStart[y][13] <= MonthStart[z][1]
         /\ y + 1 \in CalendarYears => MonthStart[y + 1][1] = MonthStart[y][13]
<1>1. FirstYear \in Int /\ LastYear \in Int /\ FirstYear \in CalendarYears /\ y \in Int
      /\ y >= FirstYear /\ y <= LastYear
  BY CalendarAssumption DEF CalendarYears
<1> DEFINE D(z) == DaysBeforeYear(z) - DaysBeforeYear(FirstYear)
<1>2. \A z \in CalendarYears : \A k \in 1..13 : MonthStart[z][k] = D(z) + DaysBeforeMonth(k, z)
  BY DEF MonthStart
<1>3. \A z \in CalendarYears : D(z) \in Nat
  <2> SUFFICES ASSUME NEW z \in CalendarYears PROVE D(z) \in Nat
    OBVIOUS
  <2>1. z \in Int /\ FirstYear <= z
    BY <1>1 DEF CalendarYears
  <2>2. DaysBeforeYear(z) \in Int /\ DaysBeforeYear(FirstYear) \in Int
    BY <1>1, <2>1, YearLength
  <2>3. DaysBeforeYear(FirstYear) <= DaysBeforeYear(z)
    BY <1>1, <2>1, YearsInOrder
  <2> QED
    BY <2>2, <2>3
<1>4. D(FirstYear) = 0
  BY <1>1, YearLength
<1>5. \A z \in CalendarYears : y < z => D(y + 1) <= D(z)
  <2> SUFFICES ASSUME NEW z \in CalendarYears, y < z PROVE D(y + 1) <= D(z)
    OBVIOUS
  <2>1. z \in Int /\ y + 1 \in Int /\ y + 1 <= z
    BY <1>1 DEF CalendarYears
  <2>2. DaysBeforeYear(y + 1) <= DaysBeforeYear(z)
    BY <2>1, YearsInOrder
  <2>3. DaysBeforeYear(z) \in Int /\ DaysBeforeYear(FirstYear) \in Int /\ DaysBeforeYear(y + 1) \in Int
    BY <1>1, <2>1, YearLength
  <2> QED
    BY <2>2, <2>3
<1>6. D(y + 1) = D(y) + 365 + IF IsLeapYear(y) THEN 1 ELSE 0
  BY <1>1, YearLength
<1> HIDE DEF D
<1>7. MonthStart[FirstYear][1] = 0
  BY <1>1, <1>2, <1>4, MonthLength
<1>8. MonthStart[y][13] = D(y + 1) /\ MonthStart[y][13] \in Nat
  <2>1. DaysBeforeMonth(13, y) = 365 + IF IsLeapYear(y) THEN 1 ELSE 0
    BY MonthLength
  <2>2. MonthStart[y][13] = D(y) + DaysBeforeMonth(13, y) /\ D(y) \in Nat
    BY <1>2, <1>3
  <2> QED
    BY <1>6, <2>1, <2>2
<1>9. \A z \in CalendarYears : MonthStart[z][1] = D(z)
  <2> SUFFICES ASSUME NEW z \in CalendarYears PROVE MonthStart[z][1] = D(z)
    OBVIOUS
  <2>1. MonthStart[z][1] = D(z) + DaysBeforeMonth(1, z) /\ DaysBeforeMonth(1, z) = 0 /\ D(z) \in Nat
    BY <1>2, <1>3, MonthLength
  <2> QED
    BY <2>1
<1>10. /\ MonthStart[y][m] = D(y) + DaysBeforeMonth(m, y)
       /\ MonthStart[y][m + 1] = D(y) + DaysBeforeMonth(m + 1, y)
       /\ DaysBeforeMonth(m + 1, y) = DaysBeforeMonth(m, y) + LastDayOfMonth(m, y)
       /\ LastDayOfMonth(m, y) \in 28..31 /\ DaysBeforeMonth(m, y) \in Nat /\ D(y) \in Nat
  <2>1. m + 1 \in 1..13 /\ m \in 1..13
    OBVIOUS
  <2> QED
    BY <1>2, <1>3, <2>1, MonthLength
<1>11. ASSUME NEW k \in 1..13, m < k
       PROVE  MonthStart[y][m] + LastDayOfMonth(m, y) <= MonthStart[y][k]
  <2>1. MonthStart[y][k] = D(y) + DaysBeforeMonth(k, y)
    BY <1>2
  <2>2. DaysBeforeMonth(m, y) + LastDayOfMonth(m, y) <= DaysBeforeMonth(k, y)
    BY <1>11, MonthsInOrder
  <2>3. DaysBeforeMonth(k, y) \in Nat
    <3>1. k \in 1..12 \/ k = 13
      OBVIOUS
    <3>2. DaysBeforeMonth(13, y) \in Nat
      BY MonthLength
    <3> QED
      BY <3>1, <3>2, MonthLength
  <2> QED
    BY <1>10, <2>1, <2>2, <2>3
<1>12. ASSUME NEW z \in CalendarYears, y < z PROVE MonthStart[y][13] <= MonthStart[z][1]
  BY <1>5, <1>8, <1>9, <1>12
<1>13. y + 1 \in CalendarYears => MonthStart[y + 1][1] = MonthStart[y][13]
  BY <1>8, <1>9
<1> QED
  BY <1>1, <1>7, <1>8, <1>10, <1>11, <1>12, <1>13

\* Years are numbers, and so are the firsts of their months.
LEMMA StartIsNumber ==
  ASSUME NEW y \in CalendarYears, NEW m \in 1..13
  PROVE  /\ y \in Int /\ y >= FirstYear /\ y <= LastYear
         /\ MonthStart[y][m] \in Nat
<1>1. m \in 1..12 \/ m = 13
  OBVIOUS
<1>2. 1 \in 1..12
  OBVIOUS
<1> QED
  BY <1>1, <1>2, MonthStarts

\* The year and the month of a day are those that have begun last.
LEMMA DateOfDay ==
  ASSUME NEW y \in CalendarYears, NEW m \in 1..12, NEW d \in 1..LastDayOfMonth(m, y)
  PROVE  /\ MonthStart[y][m] + d - 1 \in CalendarDays
         /\ DateOf[MonthStart[y][m] + d - 1] = [year |-> y, month |-> m, day |-> d]
<1> DEFINE n == MonthStart[y][m] + d - 1
           Y == {z \in CalendarYears : MonthStart[z][1] <= n}
           K == {k \in 1..12 : MonthStart[y][k] <= n}
<1>1. /\ y \in Int /\ y >= FirstYear /\ y <= LastYear /\ MonthStart[y][m] \in Nat
      /\ LastDayOfMonth(m, y) \in 28..31
      /\ MonthStart[y][13] \in Nat
      /\ \A k \in 1..13 : m < k => MonthStart[y][m] + LastDayOfMonth(m, y) <= MonthStart[y][k]
  BY MonthStarts
<1>2. /\ n \in Nat /\ n >= MonthStart[y][m] /\ n < MonthStart[y][m] + LastDayOfMonth(m, y)
      /\ n < MonthStart[y][13]
  <2>1. MonthStart[y][m] + LastDayOfMonth(m, y) <= MonthStart[y][13]
    BY <1>1
  <2> QED
    BY <1>1, <2>1
<1>3. MonthStart[y][1] <= MonthStart[y][m]
  <2>1. CASE m = 1
    BY <1>1, <2>1
  <2>2. CASE m # 1
    <3>1. /\ MonthStart[y][1] \in Nat /\ LastDayOfMonth(1, y) \in 28..31
          /\ MonthStart[y][1] + LastDayOfMonth(1, y) <= MonthStart[y][m]
      BY <2>2, MonthStarts
    <3> QED
      BY <1>1, <3>1
  <2> QED
    BY <2>1, <2>2
<1> HIDE DEF n
<1>4. y \in Y /\ \A z \in Y : z <= y
  <2>1. MonthStart[y][1] \in Nat
    BY MonthStarts
  <2>2. ASSUME NEW z \in Y PROVE z <= y
    <3>0. z \in CalendarYears /\ MonthStart[z][1] <= n /\ 1 \in 1..13
      OBVIOUS
    <3>1. z \in Int /\ MonthStart[z][1] \in Nat
      BY <3>0, StartIsNumber
    <3>2. y < z => MonthStart[y][13] <= MonthStart[z][1]
      BY MonthStarts
    <3> QED
      BY <1>1, <1>2, <3>0, <3>1, <3>2
  <2> QED
    BY <1>1, <1>2, <1>3, <2>1, <2>2
<1>5. Max(Y) = y
  <2>1. \A z \in Y : z \in Int
    BY MonthStarts
  <2> HIDE DEF Y
  <2>2. \A z \in Y : (\A x \in Y : z >= x) => z = y
    BY <1>4, <2>1
  <2>3. y \in Y /\ \A x \in Y : y >= x
    BY <1>4, <2>1
  <2> QED
    BY <2>2, <2>3 DEF Max
<1>6. m \in K /\ \A k \in K : k <= m
  <2>1. ASSUME NEW k \in K PROVE k <= m
    <3>1. k \in 1..12 /\ MonthStart[y][k] \in Nat /\ MonthStart[y][k] <= n
      BY MonthStarts
    <3>2. m < k => MonthStart[y][m] + LastDayOfMonth(m, y) <= MonthStart[y][k]
      BY <1>1, <3>1
    <3> QED
      BY <1>1, <1>2, <3>1, <3>2
  <2> QED
    BY <1>1, <1>2, <2>1
<1>7. Max(K) = m
  <2>1. \A k \in K : k \in Int
    OBVIOUS
  <2> HIDE DEF K
  <2>2. \A z \in K : (\A x \in K : z >= x) => z = m
    BY <1>6, <2>1
  <2>3. m \in K /\ \A x \in K : m >= x
    BY <1>6, <2>1
  <2> QED
    BY <2>2, <2>3 DEF Max
<1>8. n \in CalendarDays
  <2>1. LastYear \in CalendarYears /\ LastYear \in Int
    BY CalendarAssumption DEF CalendarYears
  <2>2. MonthStart[y][13] <= MonthStart[LastYear][13] /\ MonthStart[LastYear][13] \in Nat
    <3>1. MonthStart[LastYear][13] \in Nat /\ MonthStart[LastYear][1] \in Nat
          /\ LastDayOfMonth(1, LastYear) \in 28..31
          /\ MonthStart[LastYear][1] + LastDayOfMonth(1, LastYear) <= MonthStart[LastYear][13]
      BY <2>1, MonthStarts
    <3>2. y = LastYear \/ MonthStart[y][13] <= MonthStart[LastYear][1]
      BY <1>1, <2>1, MonthStarts
    <3> QED
      BY <1>1, <3>1, <3>2
  <2> QED
    BY <1>1, <1>2, <2>2 DEF CalendarDays
<1>9. DateOf[n] = [year |-> y, month |-> m, day |-> n - MonthStart[y][m] + 1]
  <2> HIDE DEF n
  <2>1. DateOf[n] = LET a == Max({z \in CalendarYears : MonthStart[z][1] <= n})
                        b == Max({k \in 1..12 : MonthStart[a][k] <= n})
                    IN  [year |-> a, month |-> b, day |-> n - MonthStart[a][b] + 1]
    BY <1>8 DEF DateOf
  <2> QED
    BY <1>5, <1>7, <2>1 DEF Y, K
<1>10. n - MonthStart[y][m] + 1 = d
  BY <1>1 DEF n
<1> QED
  BY <1>8, <1>9, <1>10 DEF n

\* Each day has its date.
LEMMA DayHasDate ==
  ASSUME NEW n \in CalendarDays
  PROVE  \E y \in CalendarYears : \E m \in 1..12 : \E d \in 1..LastDayOfMonth(m, y) :
           n = MonthStart[y][m] + d - 1
<1>1. LastYear \in CalendarYears /\ CalendarYears \subseteq Nat /\ FirstYear \in Nat
  BY CalendarAssumption DEF CalendarYears
<1>2. MonthStart[LastYear][13] \in Nat
  BY <1>1, MonthStarts
<1>3. n \in Nat /\ n < MonthStart[LastYear][13]
  BY <1>2 DEF CalendarDays
<1> DEFINE Y == {z \in CalendarYears : n < MonthStart[z][13]}
           y == Min(Y)
<1>4. y \in Y /\ \A z \in Y : y <= z
  <2>1. Y \in SUBSET Nat
    <3>1. Y \subseteq CalendarYears
      OBVIOUS
    <3> HIDE DEF Y
    <3> QED
      BY <1>1, <3>1
  <2>2. LastYear \in Y
    BY <1>1, <1>3
  <2> QED
    BY <2>1, <2>2, LeastOf
<1>5. y \in CalendarYears /\ n < MonthStart[y][13]
  BY <1>4
<1>6. MonthStart[y][1] <= n
  <2>1. CASE y = FirstYear
    BY <1>3, <1>5, <2>1, MonthStarts
  <2>2. CASE y # FirstYear
    <3> HIDE DEF y
    <3>1. y \in Int /\ y >= FirstYear /\ y <= LastYear
      <4>1. 1 \in 1..13
        OBVIOUS
      <4> QED
        BY <1>5, <4>1, StartIsNumber
    <3>2. y - 1 \in CalendarYears
      BY <1>1, <2>2, <3>1 DEF CalendarYears
    <3>3. y - 1 \notin Y
      BY <1>4, <3>1
    <3>4. MonthStart[y - 1][13] \in Nat /\ ~(n < MonthStart[y - 1][13])
      BY <3>2, <3>3, MonthStarts
    <3>5. (y - 1) + 1 = y
      BY <3>1
    <3>6. MonthStart[y][1] = MonthStart[y - 1][13]
      BY <1>5, <3>2, <3>5, MonthStarts
    <3> QED
      BY <1>3, <3>4, <3>6
  <2> QED
    BY <2>1, <2>2
<1> HIDE DEF y
<1> DEFINE K == {k \in 1..12 : n < MonthStart[y][k + 1]}
           m == Min(K)
<1>7. m \in K /\ \A k \in K : m <= k
  <2>1. K \in SUBSET Nat
    OBVIOUS
  <2>2. 12 \in K
    BY <1>5
  <2> QED
    BY <2>1, <2>2, LeastOf
<1>8. m \in 1..12 /\ n < MonthStart[y][m + 1]
  BY <1>7
<1>9. MonthStart[y][m] <= n
  <2>1. CASE m = 1
    BY <1>6, <2>1
  <2>2. CASE m # 1
    <3> HIDE DEF m
    <3>1. m - 1 \in 1..12 /\ m - 1 \notin K /\ (m - 1) + 1 = m
      BY <1>7, <1>8, <2>2
    <3>2. MonthStart[y][m] \in Nat /\ ~(n < MonthStart[y][m])
      BY <1>5, <1>8, <3>1, MonthStarts
    <3> QED
      BY <1>3, <3>2
  <2> QED
    BY <2>1, <2>2
<1> HIDE DEF m
<1>10. /\ MonthStart[y][m] \in Nat
       /\ MonthStart[y][m + 1] = MonthStart[y][m] + LastDayOfMonth(m, y)
       /\ LastDayOfMonth(m, y) \in 28..31
  BY <1>5, <1>8, MonthStarts
<1> DEFINE d == n - MonthStart[y][m] + 1
<1>11. d \in 1..LastDayOfMonth(m, y) /\ n = MonthStart[y][m] + d - 1
  BY <1>3, <1>8, <1>9, <1>10
<1> QED
  BY <1>5, <1>8, <1>11

\* A day and its date
LEMMA Dated ==
  ASSUME NEW n \in CalendarDays
  PROVE  /\ n \in Nat
         /\ DateOf[n].year \in CalendarYears
         /\ DateOf[n].month \in 1..12
         /\ DateOf[n].day \in 1..LastDayOfMonth(DateOf[n].month, DateOf[n].year)
         /\ n = MonthStart[DateOf[n].year][DateOf[n].month] + DateOf[n].day - 1
<1>1. PICK y \in CalendarYears : \E m \in 1..12 : \E d \in 1..LastDayOfMonth(m, y) :
           n = MonthStart[y][m] + d - 1
  BY DayHasDate
<1>2. PICK m \in 1..12 : \E d \in 1..LastDayOfMonth(m, y) : n = MonthStart[y][m] + d - 1
  BY <1>1
<1>3. PICK d \in 1..LastDayOfMonth(m, y) : n = MonthStart[y][m] + d - 1
  BY <1>2
<1>4. DateOf[n] = [year |-> y, month |-> m, day |-> d]
  BY <1>3, DateOfDay
<1>5. n \in Nat
  BY DEF CalendarDays
<1> QED
  BY <1>3, <1>4, <1>5

\* Days and months follow one another: of two days the later has the later year, in
\* a year the later month.
LEMMA DatesInOrder ==
  ASSUME NEW n \in CalendarDays, NEW p \in CalendarDays, n <= p
  PROVE  /\ DateOf[n].year <= DateOf[p].year
         /\ DateOf[n].year = DateOf[p].year => DateOf[n].month <= DateOf[p].month
<1> DEFINE y == DateOf[n].year
           m == DateOf[n].month
           z == DateOf[p].year
           k == DateOf[p].month
           d == DateOf[n].day
           e == DateOf[p].day
<1>1. /\ n \in Nat /\ y \in CalendarYears /\ m \in 1..12 /\ n >= MonthStart[y][m]
      /\ MonthStart[y][m] \in Nat /\ y \in Int
  <2>1. /\ n \in Nat /\ y \in CalendarYears /\ m \in 1..12
        /\ d \in 1..LastDayOfMonth(m, y) /\ n = MonthStart[y][m] + d - 1
    BY Dated
  <2> HIDE DEF y, m, d
  <2>2. MonthStart[y][m] \in Nat /\ y \in Int /\ LastDayOfMonth(m, y) \in 28..31
    BY <2>1, MonthStarts
  <2> QED
    BY <2>1, <2>2
<1>2. /\ p \in Nat /\ z \in CalendarYears /\ k \in 1..12 /\ MonthStart[z][k] \in Nat /\ z \in Int
      /\ p < MonthStart[z][k] + LastDayOfMonth(k, z) /\ LastDayOfMonth(k, z) \in 28..31
  <2>1. /\ p \in Nat /\ z \in CalendarYears /\ k \in 1..12
        /\ e \in 1..LastDayOfMonth(k, z) /\ p = MonthStart[z][k] + e - 1
    BY Dated
  <2> HIDE DEF z, k, e
  <2>2. MonthStart[z][k] \in Nat /\ z \in Int /\ LastDayOfMonth(k, z) \in 28..31
    BY <2>1, MonthStarts
  <2> QED
    BY <2>1, <2>2
<1> HIDE DEF y, m, z, k
<1>3. y <= z
  <2> SUFFICES ASSUME z < y PROVE FALSE
    BY <1>1, <1>2
  <2>1. /\ MonthStart[z][13] <= MonthStart[y][1] /\ MonthStart[z][13] \in Nat
        /\ MonthStart[z][k] + LastDayOfMonth(k, z) <= MonthStart[z][13]
    BY <1>1, <1>2, MonthStarts
  <2>2. MonthStart[y][1] <= MonthStart[y][m] /\ MonthStart[y][1] \in Nat
    <3>1. MonthStart[y][1] \in Nat /\ LastDayOfMonth(1, y) \in 28..31
      BY <1>1, MonthStarts
    <3>2. m # 1 => MonthStart[y][1] + LastDayOfMonth(1, y) <= MonthStart[y][m]
      BY <1>1, MonthStarts
    <3> QED
      BY <1>1, <3>1, <3>2
  <2> QED
    BY <1>1, <1>2, <2>1, <2>2
<1>4. ASSUME y = z, k < m PROVE FALSE
  <2>1. MonthStart[z][k] + LastDayOfMonth(k, z) <= MonthStart[z][m]
    BY <1>1, <1>2, <1>4, MonthStarts
  <2> QED
    BY <1>1, <1>2, <1>4, <2>1
<1> QED
  BY <1>1, <1>2, <1>3, <1>4 DEF y, m, z, k

-----------------------------------------------------------------------------
(* The week, and the instants of a date *)

\* The days of the week go round.
LEMMA WeekGoesRound ==
  ASSUME NEW n \in Int, NEW k \in -2..6
  PROVE  /\ DayOfWeek(n) \in 1..7
         /\ DayOfWeek(n + k) = IF DayOfWeek(n) + k > 7 THEN DayOfWeek(n) + k - 7
                               ELSE IF DayOfWeek(n) + k < 1 THEN DayOfWeek(n) + k + 7
                               ELSE DayOfWeek(n) + k
<1> DEFINE x == DaysBeforeYear(FirstYear) + n + 1
           q == x \div 7
           r == x % 7
<1>1. x \in Int
  BY CalendarAssumption, YearLength
<1>2. DayOfWeek(n) = r + 1 /\ DayOfWeek(n + k) = ((x + k) % 7) + 1
  <2>1. DaysBeforeYear(FirstYear) \in Int
    BY CalendarAssumption, YearLength
  <2>2. DaysBeforeYear(FirstYear) + (n + k) + 1 = x + k
    BY <2>1
  <2> QED
    BY <2>2 DEF DayOfWeek
<1> HIDE DEF x
<1>3. q \in Int /\ x = 7 * q + r /\ r \in 0..6
  BY <1>1, Divided
<1> HIDE DEF q, r
<1>4. CASE r + k \in 0..6
  <2>1. x + k = 7 * q + (r + k)
    BY <1>3
  <2>2. (x + k) % 7 = r + k
    BY <1>1, <1>3, <1>4, <2>1, Division
  <2> QED
    BY <1>2, <1>3, <1>4, <2>2
<1>5. CASE r + k > 6
  <2>1. x + k = 7 * (q + 1) + (r + k - 7) /\ q + 1 \in Int /\ r + k - 7 \in 0..6
    BY <1>3, <1>5
  <2>2. (x + k) % 7 = r + k - 7
    BY <1>1, <2>1, Division
  <2> QED
    BY <1>2, <1>3, <1>5, <2>2
<1>6. CASE r + k < 0
  <2>1. x + k = 7 * (q - 1) + (r + k + 7) /\ q - 1 \in Int /\ r + k + 7 \in 0..6
    BY <1>3, <1>6
  <2>2. (x + k) % 7 = r + k + 7
    BY <1>1, <2>1, Division
  <2> QED
    BY <1>2, <1>3, <1>6, <2>2
<1> QED
  BY <1>3, <1>4, <1>5, <1>6

\* A week later it is the same day of the week.
LEMMA WeeksGoBy ==
  ASSUME NEW n \in Int, NEW w \in Int
  PROVE  DayOfWeek(n + 7 * w) = DayOfWeek(n)
<1> DEFINE x == DaysBeforeYear(FirstYear) + n + 1
           q == x \div 7
           r == x % 7
<1>1. x \in Int
  BY CalendarAssumption, YearLength
<1>2. DayOfWeek(n) = r + 1 /\ DayOfWeek(n + 7 * w) = ((x + 7 * w) % 7) + 1
  <2>1. DaysBeforeYear(FirstYear) \in Int
    BY CalendarAssumption, YearLength
  <2>2. DaysBeforeYear(FirstYear) + (n + 7 * w) + 1 = x + 7 * w
    BY <2>1
  <2> QED
    BY <2>2 DEF DayOfWeek
<1> HIDE DEF x
<1>3. q \in Int /\ x = 7 * q + r /\ r \in 0..6
  BY <1>1, Divided
<1> HIDE DEF q, r
<1>4. x + 7 * w = 7 * (q + w) + r
  BY <1>3
<1>5. (x + 7 * w) % 7 = r
  BY <1>1, <1>3, <1>4, Division
<1> QED
  BY <1>2, <1>5

\* Instants of the tables' years have a day in them.
LEMMA InstantHasDay ==
  ASSUME NEW x \in Nat
  PROVE  /\ CalendarEnd \in Nat
         /\ x < CalendarEnd <=> DayNumber(x) \in CalendarDays
         /\ DayNumber(x) \in Nat
<1>1. MonthStart[LastYear][13] \in Nat
  <2>1. LastYear \in CalendarYears /\ 13 \in 1..13
    BY CalendarAssumption DEF CalendarYears
  <2> QED
    BY <2>1, StartIsNumber
<1>2. DayNumber(x) \in Nat
  BY DayIsNumber
<1>3. CalendarEnd \in Nat
  BY <1>1, ClockUnits DEF CalendarEnd
<1>4. x < CalendarEnd <=> DayNumber(x) < MonthStart[LastYear][13]
  BY <1>1, DayBelow DEF CalendarEnd
<1> QED
  BY <1>1, <1>2, <1>3, <1>4 DEF CalendarDays

\* The date of an instant
LEMMA InstantDated ==
  ASSUME NEW x \in Nat, x < CalendarEnd
  PROVE  /\ DayNumber(x) \in CalendarDays
         /\ DayNumber(x) \in Nat
         /\ Year(x) \in CalendarYears /\ Year(x) \in Int
         /\ Year(x) >= FirstYear /\ Year(x) <= LastYear
         /\ Month(x) \in 1..12
         /\ Day(x) \in 1..LastDayOfMonth(Month(x), Year(x))
         /\ LastDayOfMonth(Month(x), Year(x)) \in 28..31
         /\ MonthStart[Year(x)][Month(x)] \in Nat
         /\ DayNumber(x) = MonthStart[Year(x)][Month(x)] + Day(x) - 1
<1>1. DayNumber(x) \in CalendarDays /\ DayNumber(x) \in Nat
  BY InstantHasDay
<1>2. /\ Year(x) \in CalendarYears
      /\ Month(x) \in 1..12
      /\ Day(x) \in 1..LastDayOfMonth(Month(x), Year(x))
      /\ DayNumber(x) = MonthStart[Year(x)][Month(x)] + Day(x) - 1
  BY <1>1, Dated DEF Year, Month, Day
<1>3. /\ Year(x) \in Int /\ Year(x) >= FirstYear /\ Year(x) <= LastYear
      /\ LastDayOfMonth(Month(x), Year(x)) \in 28..31
      /\ MonthStart[Year(x)][Month(x)] \in Nat
  BY <1>2, MonthStarts
<1> QED
  BY <1>1, <1>2, <1>3

\* Another time of the same day
LEMMA InstantOfTime ==
  ASSUME NEW x \in Nat, x < CalendarEnd, NEW h \in Int, NEW mi \in Int, NEW s \in Int
  PROVE  Instant(Year(x), Month(x), Day(x), h, mi, s) =
           DayNumber(x) * SecondsPerDay + h * SecondsPerHour + mi * SecondsPerMinute + s
<1>1. DayNumber(x) = MonthStart[Year(x)][Month(x)] + Day(x) - 1
  BY InstantDated
<1> QED
  BY <1>1 DEF Instant

-----------------------------------------------------------------------------
(* What the constructor makes of a documented expression *)

\* The values of the fields are numbers, and no markers.
LEMMA FieldRange ==
  ASSUME NEW field \in Fields
  PROVE  /\ Low(field) \in Nat /\ High(field) \in Nat /\ Low(field) <= High(field)
         /\ AllSpec \notin Low(field)..High(field)
         /\ NoSpec \notin Low(field)..High(field)
         /\ AllSpec \in Nat
<1>1. CASE field \in CycleFields
  BY <1>1, FieldCycle DEF AllSpec, NoSpec
<1>2. CASE field = "year"
  <2>1. MaxYear \in Nat /\ MaxYear >= FirstYear /\ FirstYear \in Nat
    BY CalendarAssumption, MeaningAssumption
  <2>2. Low("year") = 1970 /\ High("year") = MaxYear
    BY DEF Low, High
  <2> QED
    BY <1>2, <2>1, <2>2, CronAssumption DEF AllSpec, NoSpec
<1> QED
  BY <1>1, <1>2 DEF CycleFields

\* What a term of numbers adds
LEMMA NumbersAdd ==
  ASSUME NEW field \in Fields, NEW term \in ScannedTerm, IsNumbers(field, term),
         InBounds(field, term.val, term.end, term.incr),
         NEW A, A = AddToSet(field, term.val, term.end, term.incr)
  PROVE  /\ A # {} /\ A \subseteq Low(field)..High(field) \union {AllSpec}
         /\ AllSpec \in A => Low(field)..High(field) \subseteq A
<1> DEFINE start == StartAt(field, term.val)
           stop == StopAt(field, term.end)
           L == Low(field)
           H == High(field)
           incr == term.incr
<1>1. /\ L \in Nat /\ H \in Nat /\ L <= H /\ AllSpec \notin L..H /\ incr \in Int /\ incr >= -1
      /\ term.val \in Nat
  BY FieldRange DEF ScannedTerm
<1>2. /\ start \in L..H /\ stop \in L..H
      /\ term.val = AllSpec => start = L /\ stop = H
      /\ term.val # AllSpec => term.val \in L..H
  BY <1>1 DEF IsNumbers, StartAt, StopAt
<1> HIDE DEF start, stop, L, H, incr
<1>3. CASE incr \in {0, -1} /\ term.val # AllSpec
  <2>1. A = {term.val}
    BY <1>3 DEF AddToSet, incr
  <2>2. term.val \in L..H /\ AllSpec \notin A
    BY <1>2, <1>3, <2>1
  <2>3. A # {} /\ A \subseteq L..H \union {AllSpec}
    BY <2>1, <2>2
  <2> QED
    BY <2>2, <2>3 DEF L, H
<1>4. CASE ~(incr \in {0, -1} /\ term.val # AllSpec) /\ start <= stop
  <2> DEFINE R == Run(start, stop, incr)
  <2>1. A = R \union (IF incr <= 0 THEN {AllSpec} ELSE {})
    BY <1>1, <1>4, AddedInOrder DEF incr, start, stop, L, H
  <2>2. R \subseteq start..stop
    BY DEF Run
  <2>3. start \in R
    <3>1. (start - start) % StepOf(incr) = 0
      <4>1. StepOf(incr) \in Nat /\ StepOf(incr) > 0
        BY <1>1 DEF StepOf
      <4>2. start - start = 0 /\ start \in Int
        BY <1>1, <1>2
      <4>3. 0 % StepOf(incr) = 0
        BY <4>1, OneCycle
      <4> QED
        BY <4>2, <4>3
    <3> QED
      BY <1>1, <1>2, <1>4, <3>1 DEF Run
  <2>4. ASSUME AllSpec \in A PROVE L..H \subseteq R
    <3>1. incr <= 0 /\ term.val = AllSpec
      BY <1>1, <1>2, <1>4, <2>1, <2>2, <2>4
    <3>2. start = L /\ stop = H /\ StepOf(incr) = 1
      BY <1>2, <3>1 DEF StepOf
    <3> QED
      BY <1>1, <3>2 DEF Run
  <2> HIDE DEF R
  <2>5. R \subseteq L..H
    BY <1>1, <1>2, <2>2
  <2> QED
    BY <2>1, <2>3, <2>4, <2>5 DEF L, H
<1>5. CASE ~(incr \in {0, -1} /\ term.val # AllSpec) /\ stop < start
  <2>1. field \in CycleFields
    <3> SUFFICES ASSUME field = "year" PROVE FALSE
      BY DEF CycleFields
    <3>1. (incr <= 0 /\ term.val # AllSpec) \/ start <= stop
      BY DEF InBounds, incr, start, stop
    <3> QED
      BY <1>1, <1>2, <1>5, <3>1
  <2> DEFINE C == Cycle(field)
             R == Run(start, stop + C, incr)
             W(i) == IF i <= H THEN i ELSE i - C
  <2>2. /\ A = {W(i) : i \in R} \union (IF incr <= 0 THEN {AllSpec} ELSE {})
        /\ R \subseteq L..(H + C - 1)
    BY <1>2, <1>5, <2>1, AddedOverEnd DEF incr, start, stop, L, H
  <2>3. C = H - L + 1
    BY <2>1, FieldCycle DEF L, H
  <2>4. incr > 0
    BY <1>1, <1>2, <1>5
  <2>5. start \in R
    <3>1. (start - start) % StepOf(incr) = 0
      <4>1. StepOf(incr) \in Nat /\ StepOf(incr) > 0
        BY <1>1 DEF StepOf
      <4>2. start - start = 0 /\ start \in Int
        BY <1>1, <1>2
      <4>3. 0 % StepOf(incr) = 0
        BY <4>1, OneCycle
      <4> QED
        BY <4>2, <4>3
    <3>2. start \in start..(stop + C)
      BY <1>1, <1>2, <2>3
    <3> QED
      BY <3>1, <3>2 DEF Run
  <2> HIDE DEF R, C
  <2>6. \A i \in R : W(i) \in L..H
    BY <1>1, <2>2, <2>3
  <2>7. A = {W(i) : i \in R}
    BY <2>2, <2>4, <1>1
  <2> HIDE DEF W
  <2>8. A \subseteq L..H /\ A # {}
    BY <2>5, <2>6, <2>7
  <2> QED
    BY <1>1, <2>8 DEF L, H
<1> QED
  BY <1>1, <1>2, <1>3, <1>4, <1>5

\* The terms buildExpression makes the sets of
LEMMA TermsScanned ==
  ASSUME text \in Texts, NEW field \in Fields, NEW i \in DOMAIN TermsOf(field)
  PROVE  TermsOf(field)[i] \in ScannedTerm
<1>1. CASE field = "year" /\ text.year = << >>
  <2>1. TermsOf(field) = <<Star>>
    BY <1>1 DEF TermsOf
  <2>2. Star \in ScannedTerm
    BY DEF Star, ScannedTerm, TermForms, AllSpec
  <2> QED
    BY <2>1, <2>2
<1>2. CASE ~(field = "year" /\ text.year = << >>)
  <2>1. TermsOf(field) = text[field]
    BY <1>2 DEF TermsOf
  <2> QED
    BY <2>1, CronAssumption DEF ScannedTerm
<1> QED
  BY <1>1, <1>2

\* A field of numbers has a set of values of the field, or all of them and the marker.
LEMMA NumbersFieldSet ==
  ASSUME text \in Texts, Accepted, NEW field \in Fields, DOMAIN TermsOf(field) # {},
         \A i \in DOMAIN TermsOf(field) : IsNumbers(field, TermsOf(field)[i])
  PROVE  /\ Shaped(FieldSet(field), Low(field), High(field))
         /\ FieldSet(field) \subseteq Low(field)..High(field) \union {AllSpec}
<1> DEFINE D == DOMAIN TermsOf(field)
           V(i) == TermValues(field, TermsOf(field)[i])
           L == Low(field)
           H == High(field)
<1>1. ASSUME NEW i \in D
      PROVE  /\ V(i) # {} /\ V(i) \subseteq L..H \union {AllSpec}
             /\ AllSpec \in V(i) => L..H \subseteq V(i)
  <2> DEFINE term == TermsOf(field)[i]
  <2>1. term \in ScannedTerm
    BY TermsScanned
  <2>2. IsNumbers(field, term) /\ TermAccepted(field, term)
    BY DEF Accepted
  <2> HIDE DEF term
  <2>3. term.form = "numbers"
    BY <2>2 DEF IsNumbers
  <2>4. InBounds(field, term.val, term.end, term.incr)
    BY <2>2, <2>3 DEF TermAccepted
  <2>5. TermValues(field, term) = AddToSet(field, term.val, term.end, term.incr)
    BY <2>3 DEF TermValues
  <2>6. /\ TermValues(field, term) # {}
        /\ TermValues(field, term) \subseteq L..H \union {AllSpec}
        /\ AllSpec \in TermValues(field, term) => L..H \subseteq TermValues(field, term)
    BY <2>1, <2>2, <2>4, <2>5, NumbersAdd
  <2> QED
    BY <2>6 DEF term
<1>2. FieldSet(field) = UNION {V(i) : i \in D}
  BY DEF FieldSet
<1> HIDE DEF V, D
<1>3. FieldSet(field) # {} /\ FieldSet(field) \subseteq L..H \union {AllSpec}
  BY <1>1, <1>2 DEF D
<1>4. AllSpec \in FieldSet(field) => L..H \subseteq FieldSet(field)
  BY <1>1, <1>2
<1>5. L \in Nat /\ H \in Nat /\ AllSpec \in Nat
  BY FieldRange
<1> HIDE DEF L, H
<1>6. L..H \union {AllSpec} \subseteq Nat
  BY <1>5
<1>7. Shaped(FieldSet(field), L, H)
  BY <1>3, <1>4, <1>6 DEF Shaped
<1> QED
  BY <1>3, <1>7 DEF L, H

\* A field that is documented and has no special terms has numbers.
LEMMA NumbersSet ==
  ASSUME text \in Texts, Accepted, Documented(text), NEW field \in Fields \ {"dayOfMonth", "dayOfWeek"}
  PROVE  /\ Shaped(FieldSet(field), Low(field), High(field))
         /\ FieldSet(field) \subseteq Low(field)..High(field) \union {AllSpec}
<1>1. CASE field = "year" /\ text.year = << >>
  <2>1. TermsOf(field) = <<Star>>
    BY <1>1 DEF TermsOf
  <2>2. IsNumbers(field, Star)
    BY DEF Star, IsNumbers
  <2>3. DOMAIN TermsOf(field) = 1..1
    BY <2>1
  <2>4. \A i \in DOMAIN TermsOf(field) : IsNumbers(field, TermsOf(field)[i])
    BY <2>1, <2>2, <2>3
  <2> QED
    BY <2>3, <2>4, NumbersFieldSet
<1>2. CASE ~(field = "year" /\ text.year = << >>)
  <2>1. TermsOf(field) = text[field]
    BY <1>2 DEF TermsOf
  <2>2. ~IsSpecial(field, text[field][1])
    BY DEF IsSpecial
  <2>3. /\ DOMAIN text[field] # {}
        /\ \A i \in DOMAIN text[field] : IsNumbers(field, text[field][i])
    BY <1>2, <2>2 DEF Documented
  <2> QED
    BY <2>1, <2>3, NumbersFieldSet
<1> QED
  BY <1>1, <1>2

\* The search is given what the constructor makes of an expression as the comment has them.
Ready ==
  /\ text \in Texts
  /\ Accepted
  /\ Documented(text)
  /\ expr = Built

\* Numbers of a field that goes round
LEMMA NumbersMean ==
  ASSUME text \in Texts, Accepted, NEW field \in CycleFields, NEW v \in Low(field)..High(field),
         \A i \in DOMAIN text[field] : IsNumbers(field, text[field][i])
  PROVE  v \in FieldSet(field) <=> FieldMeans(field, text[field], v)
<1>1. \A i \in DOMAIN text[field] :
         text[field][i].form = "numbers" /\ text[field][i].val # NoSpec
  BY FieldRange DEF IsNumbers, AllSpec, NoSpec, CycleFields
<1> QED
  BY <1>1, FieldSetMeans

\* A documented field of times or months has numbers.
LEMMA HasNumbers ==
  ASSUME Documented(text), NEW field \in {"second", "minute", "hour", "month"}
  PROVE  /\ DOMAIN text[field] # {}
         /\ \A i \in DOMAIN text[field] : IsNumbers(field, text[field][i])
<1>1. ~IsSpecial(field, text[field][1]) /\ field \in Fields /\ field # "year"
  BY DEF IsSpecial, Fields
<1> QED
  BY <1>1 DEF Documented

\* Years are in order: a set holds what the terms mean.
LEMMA YearsMean ==
  ASSUME text \in Texts, Accepted, Documented(text), NEW v \in Low("year")..High("year")
  PROVE  v \in FieldSet("year") <=> text.year = << >> \/ FieldMeans("year", text.year, v)
<1> DEFINE L == Low("year")
           H == High("year")
<1>1. "year" \in Fields /\ L \in Nat /\ H \in Nat /\ L <= H /\ AllSpec \notin L..H /\ v # AllSpec
  BY FieldRange DEF Fields
<1>2. ASSUME NEW term \in ScannedTerm, IsNumbers("year", term), TermAccepted("year", term)
      PROVE  v \in TermValues("year", term) <=> TermMeans("year", term, v)
  <2> DEFINE start == StartAt("year", term.val)
             stop == StopAt("year", term.end)
  <2>1. term.form = "numbers" /\ InBounds("year", term.val, term.end, term.incr)
    BY <1>2 DEF IsNumbers, TermAccepted
  <2>2. TermValues("year", term) = AddToSet("year", term.val, term.end, term.incr)
    BY <2>1 DEF TermValues
  <2>3. (term.incr <= 0 /\ term.val # AllSpec) \/ start <= stop
    BY <2>1 DEF InBounds
  <2>4. start \in L..H /\ stop \in L..H /\ term.incr \in Int /\ term.incr >= -1 /\ term.val \in Nat
        /\ (term.val # AllSpec => start = term.val)
    BY <1>1, <1>2 DEF IsNumbers, StartAt, StopAt, ScannedTerm
  <2>5. CASE term.incr <= 0 /\ term.val # AllSpec
    <3>1. term.incr \in {0, -1}
      BY <2>4, <2>5
    <3>2. AddToSet("year", term.val, term.end, term.incr) = {term.val}
      BY <2>5, <3>1 DEF AddToSet
    <3>3. TermMeans("year", term, v) <=> v \in term.val..term.val /\ (v - term.val) % 1 = 0
      BY <2>4, <2>5 DEF TermMeans
    <3>4. v \in Int /\ term.val \in Int
      BY <1>1, <2>4
    <3> QED
      BY <2>2, <3>2, <3>3, <3>4
  <2>6. CASE ~(term.incr <= 0 /\ term.val # AllSpec)
    <3>1. start <= stop /\ ~(term.incr \in {0, -1} /\ term.val # AllSpec)
      BY <2>3, <2>4, <2>6
    <3>2. AddToSet("year", term.val, term.end, term.incr) =
            Run(start, stop, term.incr) \union (IF term.incr <= 0 THEN {AllSpec} ELSE {})
      BY <1>1, <1>2, <3>1, AddedInOrder
    <3>3. TermMeans("year", term, v) <=> v \in start..stop /\ (v - start) % StepOf(term.incr) = 0
      BY <2>6, <3>1 DEF TermMeans, StartAt, StopAt, StepOf
    <3> QED
      BY <1>1, <2>2, <3>2, <3>3 DEF Run
  <2> QED
    BY <2>5, <2>6
<1>3. CASE text.year = << >>
  <2>1. TermsOf("year") = <<Star>>
    BY <1>3 DEF TermsOf
  <2>2. Star \in ScannedTerm /\ IsNumbers("year", Star) /\ TermAccepted("year", Star)
    <3>1. TermAccepted("year", TermsOf("year")[1])
      <4>1. 1 \in DOMAIN TermsOf("year")
        BY <2>1
      <4> QED
        BY <1>1, <4>1 DEF Accepted
    <3>2. TermsOf("year")[1] = Star
      BY <2>1
    <3> QED
      BY <3>1, <3>2 DEF Star, ScannedTerm, IsNumbers, TermForms, AllSpec
  <2>3. v \in TermValues("year", Star) <=> TermMeans("year", Star, v)
    BY <1>2, <2>2
  <2>4. TermMeans("year", Star, v)
    <3>1. Star.val = AllSpec /\ Star.end = -1 /\ Star.incr = 0
      BY DEF Star
    <3>2. TermMeans("year", Star, v) <=> v \in L..H /\ (v - L) % 1 = 0
      BY <1>1, <3>1 DEF TermMeans
    <3>3. (v - L) % 1 = 0
      BY <1>1
    <3> QED
      BY <3>2, <3>3
  <2>5. FieldSet("year") = TermValues("year", Star)
    BY <2>1 DEF FieldSet
  <2> QED
    BY <1>3, <2>3, <2>4, <2>5
<1>4. CASE text.year # << >>
  <2>1. TermsOf("year") = text.year
    BY <1>4 DEF TermsOf
  <2>2. ~IsSpecial("year", text["year"][1])
    BY DEF IsSpecial
  <2>3. \A i \in DOMAIN text.year : IsNumbers("year", text.year[i])
    BY <1>1, <1>4, <2>2 DEF Documented
  <2>4. ASSUME NEW i \in DOMAIN text.year
        PROVE  v \in TermValues("year", text.year[i]) <=> TermMeans("year", text.year[i], v)
    <3>1. text.year[i] \in ScannedTerm
      BY <1>1, <2>1, TermsScanned
    <3>2. TermAccepted("year", text.year[i])
      BY <1>1, <2>1 DEF Accepted
    <3> QED
      BY <1>2, <2>3, <3>1, <3>2
  <2>5. v \in FieldSet("year") <=> \E i \in DOMAIN text.year : v \in TermValues("year", text.year[i])
    BY <2>1 DEF FieldSet
  <2>6. \A i \in DOMAIN text.year : text.year[i].form = "numbers"
    BY <2>3 DEF IsNumbers
  <2> QED
    BY <1>4, <2>4, <2>5, <2>6 DEF FieldMeans
<1> QED
  BY <1>3, <1>4

\* The sets in the object, and the ranges of the fields
LEMMA TheSets ==
  ASSUME Ready
  PROVE  /\ expr.seconds = FieldSet("second") /\ expr.minutes = FieldSet("minute")
         /\ expr.hours = FieldSet("hour") /\ expr.months = FieldSet("month")
         /\ expr.years = FieldSet("year")
         /\ expr.daysOfMonth = FieldSet("dayOfMonth") /\ expr.daysOfWeek = FieldSet("dayOfWeek")
         /\ Low("second")..High("second") = 0..SecondsPerMinute-1
         /\ Low("minute")..High("minute") = 0..MinutesPerHour-1
         /\ Low("hour")..High("hour") = 0..HoursPerDay-1
         /\ Low("month")..High("month") = 1..12
         /\ Low("dayOfMonth")..High("dayOfMonth") = 1..31
         /\ Low("dayOfWeek")..High("dayOfWeek") = 1..7
         /\ Low("year")..High("year") = 1970..MaxYear
BY DEF Ready, Built, Low, High

\* The sets of seconds, minutes, hours, months and years
LEMMA SetsShaped ==
  ASSUME Ready
  PROVE  /\ Shaped(expr.seconds, 0, SecondsPerMinute - 1)
         /\ Shaped(expr.minutes, 0, MinutesPerHour - 1)
         /\ Shaped(expr.hours, 0, HoursPerDay - 1)
         /\ Shaped(expr.months, 1, 12)
         /\ Shaped(expr.years, 1970, MaxYear)
<1>1. \A field \in Fields \ {"dayOfMonth", "dayOfWeek"} :
         Shaped(FieldSet(field), Low(field), High(field))
  BY NumbersSet DEF Ready
<1>2. {"second", "minute", "hour", "month", "year"} \subseteq Fields \ {"dayOfMonth", "dayOfWeek"}
  BY DEF Fields
<1>3. /\ Shaped(expr.seconds, Low("second"), High("second"))
      /\ Shaped(expr.minutes, Low("minute"), High("minute"))
      /\ Shaped(expr.hours, Low("hour"), High("hour"))
      /\ Shaped(expr.months, Low("month"), High("month"))
      /\ Shaped(expr.years, Low("year"), High("year"))
  BY <1>1, <1>2, TheSets
<1> QED
  BY <1>3 DEF Low, High

\* The code reads one field otherwise than the comment: the day of the month, of L-n.
LEMMA OtherFields ==
  ASSUME text \in Texts
  PROVE  /\ AsCoded.second = text.second /\ AsCoded.minute = text.minute /\ AsCoded.hour = text.hour
         /\ AsCoded.month = text.month /\ AsCoded.dayOfWeek = text.dayOfWeek
         /\ AsCoded.year = text.year
BY CronAssumption DEF AsCoded, Fields

\* A time of day is meant just if the sets hold its second, minute and hour.
LEMMA TimeMeant ==
  ASSUME Ready, NEW x \in Nat
  PROVE  x % SecondsPerDay \in TimesMeant(AsCoded) <=>
           /\ Second(x) \in expr.seconds
           /\ Minute(x) \in expr.minutes
           /\ Hour(x) \in expr.hours
<1> DEFINE t == x % SecondsPerDay
<1>1. t \in 0..SecondsPerDay-1 /\ Second(t) = Second(x) /\ Minute(t) = Minute(x) /\ Hour(t) = Hour(x)
  BY ClockFields, TimeOfDay
<1> HIDE DEF t
<1>2. t \in TimesMeant(AsCoded) <=>
           /\ FieldMeans("second", text.second, Second(x))
           /\ FieldMeans("minute", text.minute, Minute(x))
           /\ FieldMeans("hour", text.hour, Hour(x))
  BY <1>1, OtherFields DEF TimesMeant, Ready
<1>3. ASSUME NEW field \in {"second", "minute", "hour"}, NEW v \in Low(field)..High(field)
      PROVE  v \in FieldSet(field) <=> FieldMeans(field, text[field], v)
  BY HasNumbers, NumbersMean DEF Ready, CycleFields, Fields
<1>4. /\ Second(x) \in Low("second")..High("second")
      /\ Minute(x) \in Low("minute")..High("minute")
      /\ Hour(x) \in Low("hour")..High("hour")
  <2>1. /\ Second(x) \in 0..SecondsPerMinute-1
        /\ Minute(x) \in 0..MinutesPerHour-1
        /\ Hour(x) \in 0..HoursPerDay-1
    BY ClockFields
  <2> QED
    BY <2>1 DEF Low, High
<1> QED
  BY <1>2, <1>3, <1>4, TheSets DEF t

\* A date is meant just if the sets hold its year and month, and the day fields mean the day.
LEMMA DateIsMeant ==
  ASSUME Ready, NEW n \in CalendarDays
  PROVE  DateMeant(AsCoded, n) <=>
           /\ DateOf[n].year <= MaxYear /\ DateOf[n].year \in expr.years
           /\ DateOf[n].month \in expr.months
           /\ DayMeant(AsCoded, n)
<1>1. DateOf[n].month \in 1..12 /\ DateOf[n].year \in CalendarYears
  BY Dated
<1>2. DateOf[n].month \in expr.months <=> FieldMeans("month", text.month, DateOf[n].month)
  <2>1. DateOf[n].month \in Low("month")..High("month") /\ "month" \in CycleFields
    BY <1>1 DEF Low, High, CycleFields, Fields
  <2>2. \A i \in DOMAIN text["month"] : IsNumbers("month", text["month"][i])
    BY HasNumbers DEF Ready
  <2>3. DateOf[n].month \in FieldSet("month") <=> FieldMeans("month", text["month"], DateOf[n].month)
    BY <2>1, <2>2, NumbersMean DEF Ready
  <2> QED
    BY <2>3, TheSets
<1>3. DateOf[n].year <= MaxYear =>
        (DateOf[n].year \in expr.years <=>
           text.year = << >> \/ FieldMeans("year", text.year, DateOf[n].year))
  <2> SUFFICES ASSUME DateOf[n].year <= MaxYear
               PROVE  DateOf[n].year \in expr.years <=>
                        text.year = << >> \/ FieldMeans("year", text.year, DateOf[n].year)
    OBVIOUS
  <2>1. DateOf[n].year \in 1970..MaxYear
    <3>1. DateOf[n].year \in Int /\ DateOf[n].year >= FirstYear
      BY <1>1, CalendarAssumption DEF CalendarYears
    <3>2. FirstYear >= 1970 /\ FirstYear \in Int /\ MaxYear \in Int
      BY CronAssumption, CalendarAssumption, MeaningAssumption DEF Low
    <3> QED
      BY <3>1, <3>2
  <2>2. DateOf[n].year \in Low("year")..High("year")
    BY <2>1 DEF Low, High
  <2>3. DateOf[n].year \in FieldSet("year") <=>
          text.year = << >> \/ FieldMeans("year", text.year, DateOf[n].year)
    BY <2>2, YearsMean DEF Ready
  <2> QED
    BY <2>3, TheSets
<1> QED
  BY <1>2, <1>3, OtherFields DEF DateMeant, Ready

-----------------------------------------------------------------------------
(* The rules of seconds, minutes and hours *)

\* Advancing a counter of units of u advances the instant to the beginning of a unit.
LEMMA PlaceAdvance ==
  ASSUME NEW u \in Nat, u > 0, NEW m \in Nat, m > 0, NEW S, Shaped(S, 0, m - 1), NEW t \in Nat
  PROVE  LET Y == Advanced(S, m, t \div u)
         IN  /\ Y * u \in Nat /\ Y * u <= t + u * m
             /\ \A x \in t..(Y * u)-1 : (x \div u) % m \notin S
             /\ (t \div u) % m \notin S => t < Y * u
             /\ Y \in Int
<1> DEFINE y == t \div u
           r == t % u
           Y == Advanced(S, m, t \div u)
<1>0. Y = Advanced(S, m, t \div u)
  OBVIOUS
<1> HIDE DEF Y
<1>1. y \in Nat /\ t = u * y + r /\ r \in 0..u-1
  BY Divided, QuotientOfNat
<1> HIDE DEF y, r
<1>2. /\ Y \in Int /\ y <= Y /\ Y < y + m /\ \A z \in y..Y-1 : z % m \notin S
      /\ y % m \in S <=> Y = y
  <2>1. y \in Int /\ Y = Advanced(S, m, y)
    BY <1>0, <1>1 DEF y
  <2> QED
    BY <1>1, <2>1, Advance
<1>3. Y * u \in Nat
  <2>1. Y \in Nat
    BY <1>1, <1>2
  <2> QED
    BY <2>1
<1>4. Y * u <= t + u * m
  <2>1. u * (y + m - Y) \in Nat
    <3>1. y + m - Y \in Nat
      BY <1>1, <1>2
    <3> QED
      BY <3>1
  <2>2. u * (y + m - Y) = u * y + u * m - Y * u
    BY <1>1, <1>2
  <2>3. u * y \in Int /\ u * m \in Int
    BY <1>1
  <2> QED
    BY <1>1, <1>3, <2>1, <2>2, <2>3
<1>5. ASSUME NEW x \in t..(Y * u)-1 PROVE (x \div u) % m \notin S
  <2> DEFINE z == x \div u
  <2>1. x \in Int /\ x < Y * u /\ z \in Int
    BY <1>3, Divided
  <2>2. z < Y
    BY <1>2, <2>1, QuotientBelow
  <2>3. x >= y * u
    <3>1. y * u = u * y /\ y * u \in Int
      BY <1>1
    <3> QED
      BY <1>1, <1>3, <3>1
  <2>4. z >= y
    BY <1>1, <2>1, <2>3, QuotientBelow
  <2> HIDE DEF z
  <2>5. z % m \notin S
    BY <1>1, <1>2, <2>1, <2>2, <2>4
  <2> QED
    BY <2>5 DEF z
<1>6. ASSUME y % m \notin S PROVE t < Y * u
  <2>1. y < Y
    BY <1>1, <1>2, <1>6
  <2> QED
    BY <1>2, <2>1, QuotientBelow DEF y
<1> QED
  BY <1>2, <1>3, <1>4, <1>5, <1>6 DEF y, Y

\* The second is set to one of the set, and no time that is meant is passed.
LEMMA AimedSkips ==
  ASSUME Ready, cl \in Nat
  PROVE  /\ Aimed \in Nat /\ cl <= Aimed /\ Aimed < cl + SecondsPerMinute
         /\ Second(Aimed) \in expr.seconds
         /\ \A x \in cl..Aimed-1 : x % SecondsPerDay \notin TimesMeant(AsCoded)
<1> DEFINE m == SecondsPerMinute
<1>1. Second(cl) = cl % m /\ m \in Nat /\ m > 0 /\ Shaped(expr.seconds, 0, m - 1)
  BY ClockUnits, SetsShaped DEF Second
<1>2. Aimed = Advanced(expr.seconds, m, cl)
  BY <1>1 DEF Aimed, Advanced
<1>3. /\ Aimed \in Int /\ cl <= Aimed /\ Aimed < cl + m
      /\ Aimed % m \in expr.seconds
      /\ \A x \in cl..Aimed-1 : x % m \notin expr.seconds
  BY <1>1, <1>2, Advance
<1>4. ASSUME NEW x \in cl..Aimed-1 PROVE x % SecondsPerDay \notin TimesMeant(AsCoded)
  <2>1. x \in Nat /\ Second(x) \notin expr.seconds
    BY <1>3 DEF Second
  <2> QED
    BY <2>1, TimeMeant
<1> QED
  BY <1>3, <1>4 DEF Second

\* Where the rule of minutes sends the calendar
MinuteTarget(t) ==
  Instant(Year(t), Month(t), Day(t), Hour(t) + Carry(expr.minutes, Minute(t)),
          Following(expr.minutes, Minute(t)), 0)

\* The rule of minutes goes on, by an hour at most, and passes no time of day that is meant.
LEMMA MinuteSkips ==
  ASSUME Ready, NEW t \in Nat, t < CalendarEnd, Minute(t) \notin expr.minutes
  PROVE  /\ MinuteTarget(t) \in Nat /\ t < MinuteTarget(t)
         /\ MinuteTarget(t) <= t + SecondsPerHour
         /\ \A x \in t..MinuteTarget(t)-1 : x % SecondsPerDay \notin TimesMeant(AsCoded)
<1> DEFINE u == SecondsPerMinute
           m == MinutesPerHour
           S == expr.minutes
           y == t \div u
           v == Minute(t)
           f == Following(S, v)
           c == Carry(S, v)
           Y == Advanced(S, m, y)
<1>1. u \in Nat /\ u > 0 /\ m \in Nat /\ m > 0 /\ Shaped(S, 0, m - 1) /\ u * m = SecondsPerHour
  BY ClockUnits, SetsShaped DEF SecondsPerHour
<1>2. /\ y % m = v /\ v \in 0..m-1 /\ Hour(t) \in Int /\ DayNumber(t) \in Int
      /\ y \in Int /\ y = m * (y \div m) + (y % m)
      /\ y \div m = HoursPerDay * DayNumber(t) + Hour(t)
  <2>1. t \in Int
    OBVIOUS
  <2>2. y \in Int
    BY <1>1, Divided
  <2>3. y = m * (y \div m) + (y % m)
    BY <1>1, <2>2, Divided
  <2> DEFINE h == t \div SecondsPerHour
  <2>4. h \in Int
    BY ClockUnits, Divided
  <2>5. h = HoursPerDay * (h \div HoursPerDay) + (h % HoursPerDay)
    BY <2>4, ClockUnits, Divided
  <2>6. /\ y % m = v /\ v \in 0..m-1 /\ Hour(t) \in 0..HoursPerDay-1 /\ DayNumber(t) \in Int
        /\ h % HoursPerDay = Hour(t) /\ h \div HoursPerDay = DayNumber(t) /\ h = y \div m
    BY <2>1, ClockFields
  <2>7. Hour(t) \in Int
    BY <2>6
  <2> HIDE DEF h, y
  <2> QED
    BY <2>2, <2>3, <2>5, <2>6, <2>7
<1>3. f \in Int /\ c \in Int
  <2>1. f \in 0..m-1 /\ c \in {0, 1}
    <3>1. 0 \in Nat /\ m - 1 \in Nat
      BY <1>1
    <3> HIDE DEF v, m
    <3> QED
      BY <1>1, <1>2, <3>1, FollowingValue
  <2> QED
    BY <1>1, <2>1
<1>4. MinuteTarget(t) = DayNumber(t) * SecondsPerDay + (Hour(t) + c) * SecondsPerHour + f * u + 0
  <2>1. Hour(t) + c \in Int /\ 0 \in Int
    BY <1>2, <1>3
  <2> HIDE DEF f, c, u
  <2>2. Instant(Year(t), Month(t), Day(t), Hour(t) + c, f, 0) =
          DayNumber(t) * SecondsPerDay + (Hour(t) + c) * SecondsPerHour + f * SecondsPerMinute + 0
    BY <1>3, <2>1, InstantOfTime
  <2> QED
    BY <2>2 DEF MinuteTarget, f, c, u
<1>5. Y = y - v + f + c * m
  BY <1>2 DEF Advanced
<1>6. MinuteTarget(t) = Y * u
  <2>1. SecondsPerDay = u * m * HoursPerDay /\ SecondsPerHour = u * m /\ HoursPerDay \in Int
    BY ClockUnits DEF SecondsPerDay, SecondsPerHour
  <2>2. Y = m * (HoursPerDay * DayNumber(t) + Hour(t)) + f + c * m
    <3> HIDE DEF y, v, f, c, Y, m
    <3> DEFINE X == HoursPerDay * DayNumber(t) + Hour(t)
    <3>0. X \in Int /\ m * X \in Int /\ y \div m = X
      BY <1>1, <1>2, <2>1
    <3> HIDE DEF X
    <3>2. y = m * X + v
      BY <1>2, <3>0
    <3>3. v \in Int
      BY <1>1, <1>2
    <3>1. y - v = m * X /\ y - v \in Int
      BY <1>2, <3>0, <3>2, <3>3
    <3> QED
      BY <1>1, <1>3, <1>5, <3>1 DEF X
  <2> DEFINE n == DayNumber(t)
             h == Hour(t)
             k == HoursPerDay
  <2>3. MinuteTarget(t) = n * (u * m * k) + (h + c) * (u * m) + f * u
    BY <1>1, <1>3, <1>4, <2>1, <1>2
  <2>4. n \in Int /\ h \in Int /\ k \in Int
    BY <1>2, <2>1
  <2> HIDE DEF Y, f, c, u, m, n, h, k
  <2>5. Y = m * (k * n + h) + f + c * m
    BY <2>2 DEF n, h, k
  <2>6. (m * (k * n + h) + f + c * m) * u = n * (u * m * k) + (h + c) * (u * m) + f * u
    BY <1>1, <1>3, <2>4
  <2> QED
    BY <2>3, <2>5, <2>6
<1> HIDE DEF Y
<1>7. /\ Y * u \in Nat /\ Y * u <= t + u * m
      /\ \A x \in t..(Y * u)-1 : (x \div u) % m \notin S
      /\ y % m \notin S => t < Y * u
  <2>1. Y = Advanced(S, m, t \div u)
    BY DEF Y
  <2> HIDE DEF u, m, S
  <2>2. /\ Y * u \in Nat /\ Y * u <= t + u * m
        /\ \A x \in t..(Y * u)-1 : (x \div u) % m \notin S
        /\ (t \div u) % m \notin S => t < Y * u
    <3>1. u \in Nat /\ u > 0 /\ m \in Nat /\ m > 0 /\ Shaped(S, 0, m - 1) /\ t \in Nat
      BY <1>1
    <3> DEFINE Z == Advanced(S, m, t \div u)
    <3>2. /\ Z * u \in Nat /\ Z * u <= t + u * m
          /\ \A x \in t..(Z * u)-1 : (x \div u) % m \notin S
          /\ (t \div u) % m \notin S => t < Z * u
      BY ONLY <3>1, PlaceAdvance
    <3> QED
      BY ONLY <2>1, <3>2
  <2> QED
    BY <2>2
<1>8. ASSUME NEW x \in t..MinuteTarget(t)-1 PROVE x % SecondsPerDay \notin TimesMeant(AsCoded)
  <2>1. x \in Nat
    BY <1>6, <1>7
  <2>2. (x \div u) % m \notin S
    BY <1>6, <1>7
  <2>3. Minute(x) \notin expr.minutes
    BY <2>1, <2>2, ClockFields
  <2> QED
    BY <2>1, <2>3, TimeMeant
<1> QED
  BY <1>1, <1>2, <1>6, <1>7, <1>8

\* Where the rule of hours sends it
HourTarget(t) ==
  Instant(Year(t), Month(t), Day(t) + Carry(expr.hours, Hour(t)),
          Following(expr.hours, Hour(t)), 0, 0)

\* The rule of hours goes on, by a day at most, and passes no time of day that is meant.
LEMMA HourSkips ==
  ASSUME Ready, NEW t \in Nat, t < CalendarEnd, Hour(t) \notin expr.hours
  PROVE  /\ HourTarget(t) \in Nat /\ t < HourTarget(t)
         /\ HourTarget(t) <= t + SecondsPerDay
         /\ \A x \in t..HourTarget(t)-1 : x % SecondsPerDay \notin TimesMeant(AsCoded)
<1> DEFINE u == SecondsPerHour
           m == HoursPerDay
           S == expr.hours
           y == t \div u
           v == Hour(t)
           f == Following(S, v)
           c == Carry(S, v)
           Y == Advanced(S, m, y)
<1>1. u \in Nat /\ u > 0 /\ m \in Nat /\ m > 0 /\ Shaped(S, 0, m - 1) /\ u * m = SecondsPerDay
  BY ClockUnits, SetsShaped DEF SecondsPerDay
<1>2. /\ y % m = v /\ v \in 0..m-1 /\ DayNumber(t) \in Int
      /\ y \in Int /\ y = m * DayNumber(t) + v
  <2>1. y \in Int
    BY <1>1, Divided
  <2>2. y = m * (y \div m) + (y % m)
    BY <1>1, <2>1, Divided
  <2>3. /\ y % m = v /\ v \in 0..m-1 /\ DayNumber(t) \in Int /\ y \div m = DayNumber(t)
    BY ClockFields
  <2> QED
    BY <2>1, <2>2, <2>3
<1>3. f \in Int /\ c \in Int
  <2>1. f \in 0..m-1 /\ c \in {0, 1}
    <3>1. 0 \in Nat /\ m - 1 \in Nat
      BY <1>1
    <3> HIDE DEF v, m
    <3> QED
      BY <1>1, <1>2, <3>1, FollowingValue
  <2> QED
    BY <1>1, <2>1
<1>4. HourTarget(t) = (DayNumber(t) + c) * SecondsPerDay + f * u
  <2> HIDE DEF f, c
  <2>1. Instant(Year(t), Month(t), Day(t) + c, f, 0, 0) =
          (DayNumber(t) + c) * SecondsPerDay + f * SecondsPerHour + 0 * SecondsPerMinute + 0
    <3>1. /\ DayNumber(t) = MonthStart[Year(t)][Month(t)] + Day(t) - 1
          /\ MonthStart[Year(t)][Month(t)] \in Int /\ Day(t) \in Int
      BY InstantDated
    <3>2. MonthStart[Year(t)][Month(t)] + (Day(t) + c) - 1 = DayNumber(t) + c
      BY <1>3, <3>1
    <3> QED
      BY <3>2 DEF Instant
  <2>2. 0 * SecondsPerMinute = 0 /\ (DayNumber(t) + c) * SecondsPerDay + f * SecondsPerHour \in Int
    BY <1>2, <1>3, ClockUnits
  <2> QED
    BY <2>1, <2>2 DEF HourTarget, f, c
<1>5. Y = y - v + f + c * m
  BY <1>2 DEF Advanced
<1>6. HourTarget(t) = Y * u
  <2> DEFINE n == DayNumber(t)
  <2> HIDE DEF Y, f, c, u, m, n, v, y
  <2>1. Y = m * n + f + c * m /\ HourTarget(t) = (n + c) * (u * m) + f * u /\ n \in Int
    BY <1>1, <1>2, <1>3, <1>4, <1>5 DEF n
  <2>2. (m * n + f + c * m) * u = (n + c) * (u * m) + f * u
    BY <1>1, <1>3, <2>1
  <2> QED
    BY <2>1, <2>2
<1> HIDE DEF Y
<1>7. /\ Y * u \in Nat /\ Y * u <= t + u * m
      /\ \A x \in t..(Y * u)-1 : (x \div u) % m \notin S
      /\ y % m \notin S => t < Y * u
  <2>1. Y = Advanced(S, m, t \div u)
    BY DEF Y
  <2> HIDE DEF u, m, S
  <2>2. /\ Y * u \in Nat /\ Y * u <= t + u * m
        /\ \A x \in t..(Y * u)-1 : (x \div u) % m \notin S
        /\ (t \div u) % m \notin S => t < Y * u
    <3>1. u \in Nat /\ u > 0 /\ m \in Nat /\ m > 0 /\ Shaped(S, 0, m - 1) /\ t \in Nat
      BY <1>1
    <3> DEFINE Z == Advanced(S, m, t \div u)
    <3>2. /\ Z * u \in Nat /\ Z * u <= t + u * m
          /\ \A x \in t..(Z * u)-1 : (x \div u) % m \notin S
          /\ (t \div u) % m \notin S => t < Z * u
      BY ONLY <3>1, PlaceAdvance
    <3> QED
      BY ONLY <2>1, <3>2
  <2> QED
    BY <2>2
<1>8. ASSUME NEW x \in t..HourTarget(t)-1 PROVE x % SecondsPerDay \notin TimesMeant(AsCoded)
  <2>1. x \in Nat
    BY <1>6, <1>7
  <2>2. (x \div u) % m \notin S
    BY <1>6, <1>7
  <2>3. Hour(x) \notin expr.hours
    BY <2>1, <2>2, ClockFields
  <2> QED
    BY <2>1, <2>3, TimeMeant
<1> QED
  BY <1>1, <1>2, <1>6, <1>7, <1>8

-----------------------------------------------------------------------------
(* What the day fields mean *)

\* The fields that name days, and the forms of their terms that are no numbers
DayFields == {"dayOfMonth", "dayOfWeek"}
SpecialForms == {"last", "lastW", "lastDow", "nearest", "nth"}

\* A day field has numbers, or one special term.
LEMMA DayFieldForms ==
  ASSUME Ready, NEW field \in DayFields
  PROVE  \/ /\ DOMAIN text[field] # {}
            /\ \A i \in DOMAIN text[field] : IsNumbers(field, text[field][i])
         \/ DOMAIN text[field] = {1} /\ IsSpecial(field, text[field][1])
<1>1. field \in Fields /\ field # "year"
  BY DEF DayFields, Fields
<1> QED
  BY <1>1 DEF Ready, Documented

\* What the constructor makes of a day field of numbers
LEMMA DayFieldOfNumbers ==
  ASSUME Ready, NEW field \in DayFields, DOMAIN text[field] # {},
         \A i \in DOMAIN text[field] : IsNumbers(field, text[field][i])
  PROVE  /\ Shaped(FieldSet(field), Low(field), High(field))
         /\ NoSpec \notin FieldSet(field)
         /\ \A forms \in SUBSET SpecialForms : Having(text[field], forms) = {}
         /\ \A i \in DOMAIN text[field] : text[field][i].form = "numbers"
         /\ \A v \in Low(field)..High(field) :
              v \in FieldSet(field) <=>
                \E i \in DOMAIN text[field] : TermMeans(field, text[field][i], v)
<1>1. field \in Fields /\ field \in CycleFields /\ TermsOf(field) = text[field]
  BY DEF DayFields, Fields, CycleFields, TermsOf
<1>2. /\ Shaped(FieldSet(field), Low(field), High(field))
      /\ FieldSet(field) \subseteq Low(field)..High(field) \union {AllSpec}
  BY <1>1, NumbersFieldSet DEF Ready
<1>3. NoSpec \notin FieldSet(field)
  <2>1. NoSpec \notin Low(field)..High(field) /\ NoSpec # AllSpec
    BY <1>1, FieldRange DEF NoSpec, AllSpec
  <2> QED
    BY <1>2, <2>1
<1>4. \A i \in DOMAIN text[field] : text[field][i].form = "numbers"
  BY DEF IsNumbers
<1>5. ASSUME NEW forms \in SUBSET SpecialForms PROVE Having(text[field], forms) = {}
  BY <1>4 DEF Having, SpecialForms
<1>6. ASSUME NEW v \in Low(field)..High(field)
      PROVE  v \in FieldSet(field) <=>
               \E i \in DOMAIN text[field] : TermMeans(field, text[field][i], v)
  <2>1. v \in FieldSet(field) <=> FieldMeans(field, text[field], v)
    BY <1>1, NumbersMean DEF Ready
  <2> QED
    BY <1>4, <2>1 DEF FieldMeans
<1> QED
  BY <1>2, <1>3, <1>4, <1>5, <1>6

\* What it makes of one special term
LEMMA DayFieldOfOne ==
  ASSUME Ready, NEW field \in DayFields, DOMAIN text[field] = {1}
  PROVE  /\ FieldSet(field) = TermValues(field, text[field][1])
         /\ \A forms \in SUBSET SpecialForms :
              /\ Having(text[field], forms) = IF text[field][1].form \in forms THEN {1} ELSE {}
              /\ Argument(field, forms, "val") =
                   IF text[field][1].form \in forms THEN text[field][1].val ELSE 0
              /\ Argument(field, forms, "incr") =
                   IF text[field][1].form \in forms THEN text[field][1].incr ELSE 0
<1>1. TermsOf(field) = text[field]
  BY DEF DayFields, TermsOf
<1>2. FieldSet(field) = TermValues(field, text[field][1])
  BY <1>1 DEF FieldSet
<1>3. ASSUME NEW forms \in SUBSET SpecialForms
      PROVE  /\ Having(text[field], forms) = IF text[field][1].form \in forms THEN {1} ELSE {}
             /\ Argument(field, forms, "val") =
                   IF text[field][1].form \in forms THEN text[field][1].val ELSE 0
             /\ Argument(field, forms, "incr") =
                   IF text[field][1].form \in forms THEN text[field][1].incr ELSE 0
  <2>1. Having(text[field], forms) = IF text[field][1].form \in forms THEN {1} ELSE {}
    BY DEF Having
  <2>2. Max({1}) = 1
    BY DEF Max
  <2>3. Argument(field, forms, "val") =
          LET having == Having(text[field], forms)
          IN  IF having = {} THEN 0 ELSE text[field][Max(having)].val
    BY <1>1 DEF Argument
  <2>4. Argument(field, forms, "incr") =
          LET having == Having(text[field], forms)
          IN  IF having = {} THEN 0 ELSE text[field][Max(having)].incr
    BY <1>1 DEF Argument
  <2>5. CASE text[field][1].form \in forms
    <3>1. Having(text[field], forms) = {1} /\ {1} # {}
      BY <2>1, <2>5
    <3> QED
      BY <2>2, <2>3, <2>4, <2>5, <3>1
  <2>6. CASE text[field][1].form \notin forms
    BY <2>1, <2>3, <2>4, <2>6
  <2> QED
    BY <2>5, <2>6
<1> QED
  BY <1>2, <1>3

\* The ways the day fields name days, with what the constructor leaves in the object
NumbersOfMonth ==
  /\ NoSpec \in expr.daysOfWeek /\ ~expr.nearestWeekday /\ ~expr.lastdayOfMonth
  /\ Shaped(expr.daysOfMonth, 1, 31)
  /\ \A n \in CalendarDays : DayMeant(AsCoded, n) <=> DateOf[n].day \in expr.daysOfMonth

\* L, L-n
LastOfMonth ==
  /\ NoSpec \in expr.daysOfWeek /\ ~expr.nearestWeekday /\ expr.lastdayOfMonth
  /\ expr.lastdayOffset \in 0..30
  /\ \A n \in CalendarDays :
       DayMeant(AsCoded, n) <=>
         DateOf[n].day = LastDayOfMonth(DateOf[n].month, DateOf[n].year) - expr.lastdayOffset

\* LW, L-nW, aW
WeekdayOfMonth ==
  /\ NoSpec \in expr.daysOfWeek /\ expr.nearestWeekday
  /\ \/ expr.lastdayOfMonth /\ expr.lastdayOffset \in 0..27
     \/ ~expr.lastdayOfMonth /\ Min(expr.daysOfMonth) \in 1..28
  /\ \A n \in CalendarDays :
       DayMeant(AsCoded, n) <=>
         IsNearestWeekday(n, IF expr.lastdayOfMonth
                             THEN LastDayOfMonth(DateOf[n].month, DateOf[n].year) - expr.lastdayOffset
                             ELSE Min(expr.daysOfMonth))

\* Numbers in the day of the week
NumbersOfWeek ==
  /\ NoSpec \notin expr.daysOfWeek /\ ~expr.nearestWeekday
  /\ ~expr.lastdayOfWeek /\ expr.nthdayOfWeek = 0
  /\ Shaped(expr.daysOfWeek, 1, 7)
  /\ \A n \in CalendarDays : DayMeant(AsCoded, n) <=> DayOfWeek(n) \in expr.daysOfWeek

\* aL
LastOfWeek ==
  /\ NoSpec \notin expr.daysOfWeek /\ ~expr.nearestWeekday
  /\ expr.lastdayOfWeek /\ Min(expr.daysOfWeek) \in 1..7
  /\ \A n \in CalendarDays :
       DayMeant(AsCoded, n) <=>
         /\ DayOfWeek(n) = Min(expr.daysOfWeek)
         /\ DateOf[n].day + 7 > LastDayOfMonth(DateOf[n].month, DateOf[n].year)

\* a#n
NthOfWeek ==
  /\ NoSpec \notin expr.daysOfWeek /\ ~expr.nearestWeekday
  /\ ~expr.lastdayOfWeek /\ expr.nthdayOfWeek \in 1..5 /\ Min(expr.daysOfWeek) \in 1..7
  /\ \A n \in CalendarDays :
       DayMeant(AsCoded, n) <=>
         /\ DayOfWeek(n) = Min(expr.daysOfWeek)
         /\ (DateOf[n].day + 6) \div 7 = expr.nthdayOfWeek

\* What of DayMeant one day field says, L-n being read as the code reads it
OfMonth(term, n) ==
  LET date == DateOf[n]
      last == LastDayOfMonth(date.month, date.year)
  IN  \/ term.form = "numbers" /\ TermMeans("dayOfMonth", term, date.day)
      \/ term.form = "last" /\ date.day = last - term.val
      \/ term.form = "lastW" /\ IsNearestWeekday(n, last - term.val)
      \/ term.form = "nearest" /\ IsNearestWeekday(n, term.val)

OfWeek(term, n) ==
  LET date == DateOf[n]
      last == LastDayOfMonth(date.month, date.year)
  IN  \/ term.form = "numbers" /\ TermMeans("dayOfWeek", term, DayOfWeek(n))
      \/ term.form = "last" /\ DayOfWeek(n) = 7
      \/ term.form = "lastDow" /\ DayOfWeek(n) = term.val /\ date.day + 7 > last
      \/ term.form = "nth" /\ DayOfWeek(n) = term.val /\ (date.day + 6) \div 7 = term.incr

\* A term as the code reads it
Coded(term) ==
  IF term.form \in {"last", "lastW"} /\ term.val > 0 THEN [term EXCEPT !.val = @ + 1] ELSE term

LEMMA DaysAreCoded ==
  ASSUME text \in Texts
  PROVE  /\ DOMAIN AsCoded.dayOfMonth = DOMAIN text.dayOfMonth
         /\ \A i \in DOMAIN text.dayOfMonth : AsCoded.dayOfMonth[i] = Coded(text.dayOfMonth[i])
<1>1. AsCoded.dayOfMonth = [i \in DOMAIN text.dayOfMonth |-> Coded(text.dayOfMonth[i])]
  BY CronAssumption DEF AsCoded, Coded, Fields
<1> QED
  BY <1>1

\* The comment's L-(n+1) is the code's L-n.
LEMMA CodedTerm ==
  ASSUME NEW term \in [form : TermForms, val : Nat, end : Int, incr : Int]
  PROVE  /\ Coded(term).form = term.form
         /\ term.form \in {"last", "lastW"} => BeforeLast(Coded(term).val) = term.val
         /\ term.form \notin {"last", "lastW"} => Coded(term) = term
BY DEF Coded, BeforeLast

\* A day is meant by one of the two fields.
LEMMA DayMeantByFields ==
  ASSUME text \in Texts, NEW n
  PROVE  DayMeant(AsCoded, n) <=>
           \/ \E i \in DOMAIN text.dayOfMonth : OfMonth(text.dayOfMonth[i], n)
           \/ \E i \in DOMAIN text.dayOfWeek : OfWeek(text.dayOfWeek[i], n)
<1> DEFINE date == DateOf[n]
           last == LastDayOfMonth(date.month, date.year)
           ByComment(term) ==
             \/ term.form = "numbers" /\ TermMeans("dayOfMonth", term, date.day)
             \/ term.form = "last" /\ date.day = last - BeforeLast(term.val)
             \/ term.form = "lastW" /\ IsNearestWeekday(n, last - BeforeLast(term.val))
             \/ term.form = "nearest" /\ IsNearestWeekday(n, term.val)
<1>1. ASSUME NEW i \in DOMAIN text.dayOfMonth
      PROVE  ByComment(AsCoded.dayOfMonth[i]) <=> OfMonth(text.dayOfMonth[i], n)
  <2>1. text.dayOfMonth[i] \in [form : TermForms, val : Nat, end : Int, incr : Int]
    BY CronAssumption DEF Fields
  <2>2. AsCoded.dayOfMonth[i] = Coded(text.dayOfMonth[i])
    BY DaysAreCoded
  <2> QED
    BY <2>1, <2>2, CodedTerm DEF OfMonth
<1>2. DayMeant(AsCoded, n) <=>
        \/ \E i \in DOMAIN AsCoded.dayOfMonth : ByComment(AsCoded.dayOfMonth[i])
        \/ \E i \in DOMAIN AsCoded.dayOfWeek : OfWeek(AsCoded.dayOfWeek[i], n)
  BY DEF DayMeant, OfWeek
<1> QED
  BY <1>1, <1>2, DaysAreCoded, OtherFields

\* A set of one
LEMMA MinOfOne ==
  ASSUME NEW a \in Int
  PROVE  Min({a}) = a
BY DEF Min

\* The flags and numbers in the object
LEMMA TheFlags ==
  ASSUME Ready
  PROVE  /\ expr.lastdayOfWeek <=> Having(text["dayOfWeek"], {"lastDow"}) # {}
         /\ expr.nthdayOfWeek = Argument("dayOfWeek", {"nth"}, "incr")
         /\ expr.lastdayOfMonth <=> Having(text["dayOfMonth"], {"last", "lastW"}) # {}
         /\ expr.nearestWeekday <=> Having(text["dayOfMonth"], {"lastW", "nearest"}) # {}
         /\ expr.lastdayOffset = Argument("dayOfMonth", {"last", "lastW"}, "val")
         /\ expr.daysOfMonth = FieldSet("dayOfMonth")
         /\ expr.daysOfWeek = FieldSet("dayOfWeek")
BY DEF Ready, Built

\* The day of the month is a field of numbers, or one term, beside a '?' for the week.
LEMMA FormsOfMonth ==
  ASSUME Ready, DOMAIN text["dayOfWeek"] = {1}, text["dayOfWeek"][1].form = "?"
  PROVE  NumbersOfMonth \/ LastOfMonth \/ WeekdayOfMonth
<1> DEFINE terms == text["dayOfMonth"]
           term == terms[1]
<1>1. FieldSet("dayOfWeek") = {NoSpec}
  BY DayFieldOfOne DEF DayFields, TermValues
<1>2. NoSpec \in expr.daysOfWeek /\ NoSpec \notin FieldSet("dayOfMonth")
  BY <1>1, TheFlags DEF Ready, Accepted, DaysAccepted
<1>3. ASSUME NEW n \in CalendarDays
      PROVE  DayMeant(AsCoded, n) <=> \E i \in DOMAIN terms : OfMonth(terms[i], n)
  <2>1. ~OfWeek(text["dayOfWeek"][1], n)
    BY DEF OfWeek
  <2> QED
    BY <2>1, DayMeantByFields DEF Ready
<1>4. {"lastW", "nearest"} \in SUBSET SpecialForms /\ {"last", "lastW"} \in SUBSET SpecialForms
  BY DEF SpecialForms
<1>5. "dayOfMonth" \in DayFields
  BY DEF DayFields
<1>6. CASE /\ DOMAIN terms # {}
           /\ \A i \in DOMAIN terms : IsNumbers("dayOfMonth", terms[i])
  <2>1. /\ Shaped(FieldSet("dayOfMonth"), Low("dayOfMonth"), High("dayOfMonth"))
        /\ Having(terms, {"lastW", "nearest"}) = {} /\ Having(terms, {"last", "lastW"}) = {}
        /\ \A i \in DOMAIN terms : terms[i].form = "numbers"
        /\ \A v \in Low("dayOfMonth")..High("dayOfMonth") :
             v \in FieldSet("dayOfMonth") <=>
               \E i \in DOMAIN terms : TermMeans("dayOfMonth", terms[i], v)
    BY <1>4, <1>5, <1>6, DayFieldOfNumbers
  <2>2. Low("dayOfMonth") = 1 /\ High("dayOfMonth") = 31
    BY DEF Low, High
  <2>3. ASSUME NEW n \in CalendarDays
        PROVE  DayMeant(AsCoded, n) <=> DateOf[n].day \in expr.daysOfMonth
    <3>1. DateOf[n].day \in 1..31
      <4> DEFINE y == DateOf[n].year
                 m == DateOf[n].month
      <4>1. y \in CalendarYears /\ m \in 1..12 /\ DateOf[n].day \in 1..LastDayOfMonth(m, y)
        BY Dated
      <4> HIDE DEF y, m
      <4>2. LastDayOfMonth(m, y) \in 28..31
        BY <4>1, MonthStarts
      <4> QED
        BY <4>1, <4>2
    <3>2. \A i \in DOMAIN terms :
            OfMonth(terms[i], n) <=> TermMeans("dayOfMonth", terms[i], DateOf[n].day)
      BY <2>1 DEF OfMonth
    <3> QED
      BY <1>3, <2>1, <2>2, <3>1, <3>2, TheFlags
  <2>4. ~expr.nearestWeekday /\ ~expr.lastdayOfMonth /\ Shaped(expr.daysOfMonth, 1, 31)
    BY <2>1, <2>2, TheFlags
  <2> QED
    BY <1>2, <2>3, <2>4 DEF NumbersOfMonth
<1>7. CASE DOMAIN terms = {1} /\ IsSpecial("dayOfMonth", term)
  <2>1. /\ FieldSet("dayOfMonth") = TermValues("dayOfMonth", term)
        /\ Having(terms, {"lastW", "nearest"}) = IF term.form \in {"lastW", "nearest"} THEN {1} ELSE {}
        /\ Having(terms, {"last", "lastW"}) = IF term.form \in {"last", "lastW"} THEN {1} ELSE {}
        /\ Argument("dayOfMonth", {"last", "lastW"}, "val") =
             IF term.form \in {"last", "lastW"} THEN term.val ELSE 0
    BY <1>4, <1>5, <1>7, DayFieldOfOne
  <2>2. /\ expr.nearestWeekday <=> term.form \in {"lastW", "nearest"}
        /\ expr.lastdayOfMonth <=> term.form \in {"last", "lastW"}
        /\ term.form \in {"last", "lastW"} => expr.lastdayOffset = term.val
        /\ expr.daysOfMonth = TermValues("dayOfMonth", term)
    BY <2>1, TheFlags
  <2>3. ASSUME NEW n \in CalendarDays PROVE DayMeant(AsCoded, n) <=> OfMonth(term, n)
    BY <1>3, <1>7
  <2>4. term.form # "?"
    BY <1>2, <2>1 DEF TermValues
  <2>5. CASE term.form = "last"
    <3>1. term.val \in 0..30
      BY <1>7, <2>5 DEF IsSpecial
    <3>2. \A n \in CalendarDays :
            OfMonth(term, n) <=>
              DateOf[n].day = LastDayOfMonth(DateOf[n].month, DateOf[n].year) - term.val
      BY <2>5 DEF OfMonth
    <3> QED
      BY <1>2, <2>2, <2>3, <2>5, <3>1, <3>2 DEF LastOfMonth
  <2>6. CASE term.form = "lastW"
    <3>1. term.val \in 0..27
      BY <1>7, <2>6 DEF IsSpecial
    <3>2. \A n \in CalendarDays :
            OfMonth(term, n) <=>
              IsNearestWeekday(n, LastDayOfMonth(DateOf[n].month, DateOf[n].year) - term.val)
      BY <2>6 DEF OfMonth
    <3>3. expr.nearestWeekday /\ expr.lastdayOfMonth /\ expr.lastdayOffset = term.val
      BY <2>2, <2>6
    <3> QED
      BY <1>2, <2>3, <3>1, <3>2, <3>3 DEF WeekdayOfMonth
  <2>7. CASE term.form = "nearest"
    <3>1. term.val \in 1..28
      BY <1>7, <2>7 DEF IsSpecial
    <3>2. \A n \in CalendarDays : OfMonth(term, n) <=> IsNearestWeekday(n, term.val)
      BY <2>7 DEF OfMonth
    <3>3. expr.nearestWeekday /\ ~expr.lastdayOfMonth
      BY <2>2, <2>7
    <3>4. Min(expr.daysOfMonth) = term.val
      <4>1. expr.daysOfMonth = {term.val}
        BY <2>2, <2>7 DEF TermValues
      <4>2. term.val \in Int
        BY <3>1
      <4> HIDE DEF term
      <4> QED
        BY <4>1, <4>2, MinOfOne
    <3> QED
      BY <1>2, <2>3, <3>1, <3>2, <3>3, <3>4 DEF WeekdayOfMonth
  <2> QED
    BY <1>7, <2>4, <2>5, <2>6, <2>7 DEF IsSpecial
<1> QED
  BY <1>5, <1>6, <1>7, DayFieldForms

\* The day of the week is a field of numbers, or one term, beside a '?' for the month.
LEMMA FormsOfWeek ==
  ASSUME Ready, ~(DOMAIN text["dayOfWeek"] = {1} /\ text["dayOfWeek"][1].form = "?")
  PROVE  NumbersOfWeek \/ LastOfWeek \/ NthOfWeek
<1> DEFINE terms == text["dayOfWeek"]
           term == terms[1]
           month == text["dayOfMonth"]
<1>1. "dayOfMonth" \in DayFields /\ "dayOfWeek" \in DayFields
  BY DEF DayFields
<1>2. {"lastDow"} \in SUBSET SpecialForms /\ {"nth"} \in SUBSET SpecialForms
      /\ {"lastW", "nearest"} \in SUBSET SpecialForms
  BY DEF SpecialForms
<1>3. NoSpec \notin FieldSet("dayOfWeek")
  <2>1. CASE /\ DOMAIN terms # {}
             /\ \A i \in DOMAIN terms : IsNumbers("dayOfWeek", terms[i])
    BY <1>1, <2>1, DayFieldOfNumbers
  <2>2. CASE DOMAIN terms = {1} /\ IsSpecial("dayOfWeek", term)
    <3>1. FieldSet("dayOfWeek") = TermValues("dayOfWeek", term)
      BY <1>1, <2>2, DayFieldOfOne
    <3>2. TermValues("dayOfWeek", term) \subseteq 1..7
      BY <2>2 DEF TermValues, IsSpecial
    <3> QED
      BY <3>1, <3>2 DEF NoSpec
  <2> QED
    BY <1>1, <2>1, <2>2, DayFieldForms
<1>4. DOMAIN month = {1} /\ month[1].form = "?"
  <2>1. NoSpec \in FieldSet("dayOfMonth")
    BY <1>3 DEF Ready, Accepted, DaysAccepted
  <2>2. DOMAIN month = {1} /\ IsSpecial("dayOfMonth", month[1])
    BY <1>1, <2>1, DayFieldForms, DayFieldOfNumbers
  <2>3. NoSpec \in TermValues("dayOfMonth", month[1])
    BY <1>1, <2>1, <2>2, DayFieldOfOne
  <2> QED
    BY <2>2, <2>3 DEF IsSpecial, TermValues, NoSpec
<1>5. ~expr.nearestWeekday
  <2>1. Having(month, {"lastW", "nearest"}) =
          IF month[1].form \in {"lastW", "nearest"} THEN {1} ELSE {}
    BY <1>1, <1>2, <1>4, DayFieldOfOne
  <2> QED
    BY <1>4, <2>1, TheFlags
<1>6. NoSpec \notin expr.daysOfWeek
  BY <1>3, TheFlags
<1>7. ASSUME NEW n \in CalendarDays
      PROVE  DayMeant(AsCoded, n) <=> \E i \in DOMAIN terms : OfWeek(terms[i], n)
  <2>1. ~OfMonth(month[1], n)
    BY <1>4 DEF OfMonth
  <2> QED
    BY <1>4, <2>1, DayMeantByFields DEF Ready
<1>8. CASE /\ DOMAIN terms # {}
           /\ \A i \in DOMAIN terms : IsNumbers("dayOfWeek", terms[i])
  <2>1. /\ Shaped(FieldSet("dayOfWeek"), Low("dayOfWeek"), High("dayOfWeek"))
        /\ Having(terms, {"lastDow"}) = {} /\ Having(terms, {"nth"}) = {}
        /\ \A i \in DOMAIN terms : terms[i].form = "numbers"
        /\ \A v \in Low("dayOfWeek")..High("dayOfWeek") :
             v \in FieldSet("dayOfWeek") <=>
               \E i \in DOMAIN terms : TermMeans("dayOfWeek", terms[i], v)
    BY <1>1, <1>2, <1>8, DayFieldOfNumbers
  <2>2. Low("dayOfWeek") = 1 /\ High("dayOfWeek") = 7
    BY DEF Low, High
  <2>3. ASSUME NEW n \in CalendarDays
        PROVE  DayMeant(AsCoded, n) <=> DayOfWeek(n) \in expr.daysOfWeek
    <3>1. DayOfWeek(n) \in 1..7
      <4>1. n \in Int /\ 0 \in -2..6
        BY DEF CalendarDays
      <4> QED
        BY <4>1, WeekGoesRound
    <3>2. \A i \in DOMAIN terms :
            OfWeek(terms[i], n) <=> TermMeans("dayOfWeek", terms[i], DayOfWeek(n))
      BY <2>1 DEF OfWeek
    <3> QED
      BY <1>7, <2>1, <2>2, <3>1, <3>2, TheFlags
  <2>4. ~expr.lastdayOfWeek /\ expr.nthdayOfWeek = 0 /\ Shaped(expr.daysOfWeek, 1, 7)
    <3>1. TermsOf("dayOfWeek") = terms
      BY DEF TermsOf
    <3>2. Argument("dayOfWeek", {"nth"}, "incr") = 0
      BY <2>1, <3>1 DEF Argument
    <3> QED
      BY <2>1, <2>2, <3>2, TheFlags
  <2> QED
    BY <1>5, <1>6, <2>3, <2>4 DEF NumbersOfWeek
<1>9. CASE DOMAIN terms = {1} /\ IsSpecial("dayOfWeek", term)
  <2>1. /\ FieldSet("dayOfWeek") = TermValues("dayOfWeek", term)
        /\ Having(terms, {"lastDow"}) = IF term.form \in {"lastDow"} THEN {1} ELSE {}
        /\ Argument("dayOfWeek", {"nth"}, "incr") = IF term.form \in {"nth"} THEN term.incr ELSE 0
    BY <1>1, <1>2, <1>9, DayFieldOfOne
  <2>2. /\ expr.lastdayOfWeek <=> term.form = "lastDow"
        /\ expr.nthdayOfWeek = IF term.form = "nth" THEN term.incr ELSE 0
        /\ expr.daysOfWeek = TermValues("dayOfWeek", term)
    BY <2>1, TheFlags
  <2>3. ASSUME NEW n \in CalendarDays PROVE DayMeant(AsCoded, n) <=> OfWeek(term, n)
    BY <1>7, <1>9
  <2>4. CASE term.form = "last"
    <3>1. expr.daysOfWeek = {7} /\ ~expr.lastdayOfWeek /\ expr.nthdayOfWeek = 0
      BY <2>2, <2>4 DEF TermValues
    <3>2. Shaped(expr.daysOfWeek, 1, 7)
      <4>1. {7} # {} /\ {7} \subseteq Nat /\ {7} \subseteq 1..7
        OBVIOUS
      <4> QED
        BY <3>1, <4>1 DEF Shaped
    <3>3. \A n \in CalendarDays : OfWeek(term, n) <=> DayOfWeek(n) \in {7}
      BY <2>4 DEF OfWeek
    <3> QED
      BY <1>5, <1>6, <2>3, <3>1, <3>2, <3>3 DEF NumbersOfWeek
  <2>5. CASE term.form = "lastDow"
    <3>1. term.val \in 1..7 /\ expr.daysOfWeek = {term.val}
      BY <1>9, <2>2, <2>5 DEF IsSpecial, TermValues
    <3>2. Min(expr.daysOfWeek) = term.val
      BY <3>1, MinOfOne
    <3>3. \A n \in CalendarDays :
            OfWeek(term, n) <=>
              /\ DayOfWeek(n) = term.val
              /\ DateOf[n].day + 7 > LastDayOfMonth(DateOf[n].month, DateOf[n].year)
      BY <2>5 DEF OfWeek
    <3>4. expr.lastdayOfWeek
      BY <2>2, <2>5
    <3> QED
      BY <1>5, <1>6, <2>3, <3>1, <3>2, <3>3, <3>4 DEF LastOfWeek
  <2>6. CASE term.form = "nth"
    <3>1. term.val \in 1..7 /\ term.incr \in 1..5 /\ expr.daysOfWeek = {term.val}
      BY <1>9, <2>2, <2>6 DEF IsSpecial, TermValues
    <3>2. Min(expr.daysOfWeek) = term.val
      BY <3>1, MinOfOne
    <3>3. \A n \in CalendarDays :
            OfWeek(term, n) <=>
              /\ DayOfWeek(n) = term.val
              /\ (DateOf[n].day + 6) \div 7 = term.incr
      BY <2>6 DEF OfWeek
    <3>4. ~expr.lastdayOfWeek /\ expr.nthdayOfWeek = term.incr
      BY <2>2, <2>6
    <3> QED
      BY <1>5, <1>6, <2>3, <3>1, <3>2, <3>3, <3>4 DEF NthOfWeek
  <2> QED
    BY <1>9, <2>4, <2>5, <2>6 DEF IsSpecial
<1> QED
  BY <1>1, <1>8, <1>9, DayFieldForms

-----------------------------------------------------------------------------
(* The rules of days *)

\* The days of a month
LEMMA DaysOfMonth ==
  ASSUME NEW y \in CalendarYears, NEW m \in 1..12, NEW p \in Int,
         p >= MonthStart[y][m], p < MonthStart[y][m] + LastDayOfMonth(m, y)
  PROVE  /\ p \in CalendarDays
         /\ DateOf[p].year = y /\ DateOf[p].month = m
         /\ DateOf[p].day = p - MonthStart[y][m] + 1
<1> DEFINE d == p - MonthStart[y][m] + 1
<1>1. MonthStart[y][m] \in Nat /\ LastDayOfMonth(m, y) \in 28..31
  BY MonthStarts
<1>2. d \in 1..LastDayOfMonth(m, y) /\ p = MonthStart[y][m] + d - 1
  BY <1>1
<1> HIDE DEF d
<1>3. p \in CalendarDays /\ DateOf[p] = [year |-> y, month |-> m, day |-> d]
  BY <1>2, DateOfDay
<1> QED
  BY <1>3 DEF d

\* Before the k-th of the next month there are only days with a smaller number, also if
\* that month is shorter and the calendar, being lenient, goes on into the month after it.
LEMMA DaysOfNextMonth ==
  ASSUME NEW y \in CalendarYears, y < LastYear, NEW m \in 1..12, NEW k \in 1..31
  PROVE  /\ MonthStart[y][m + 1] \in Nat
         /\ MonthStart[y][m + 1] <= MonthStart[y][13]
         /\ \A p \in MonthStart[y][m + 1]..(MonthStart[y][m + 1] + k - 2) :
              p \in CalendarDays /\ DateOf[p].day < k
<1>1. /\ y \in Int /\ y + 1 \in CalendarYears /\ MonthStart[y][13] \in Nat
      /\ MonthStart[y + 1][1] = MonthStart[y][13]
  <2>1. y \in Int /\ y >= FirstYear /\ y <= LastYear /\ LastYear \in Int /\ FirstYear \in Int
    <3>1. y \in Int /\ y >= FirstYear /\ y <= LastYear /\ MonthStart[y][m] \in Nat
      BY ONLY y \in CalendarYears, m \in 1..12, MonthStarts
    <3> QED
      BY <3>1, CalendarAssumption
  <2>2. y + 1 \in CalendarYears
    BY <2>1 DEF CalendarYears
  <2> QED
    BY <2>1, <2>2, MonthStarts
<1> DEFINE first == MonthStart[y][m + 1]
<1>2. CASE m = 12
  <2>1. first = MonthStart[y + 1][1] /\ LastDayOfMonth(1, y + 1) = 31
    BY <1>1, <1>2 DEF LastDayOfMonth
  <2> HIDE DEF first
  <2>2. ASSUME NEW p \in first..(first + k - 2)
        PROVE  p \in CalendarDays /\ DateOf[p].day < k
    <3>1. p \in Int /\ p >= MonthStart[y + 1][1] /\ p < MonthStart[y + 1][1] + 31
          /\ MonthStart[y + 1][1] \in Nat
      BY <1>1, <2>1
    <3>2. p \in CalendarDays /\ DateOf[p].day = p - MonthStart[y + 1][1] + 1
      <4> DEFINE z == y + 1
                 a == 1
      <4>1. a \in 1..12 /\ z \in CalendarYears /\ p >= MonthStart[z][a]
            /\ p < MonthStart[z][a] + LastDayOfMonth(a, z)
        BY <1>1, <2>1, <3>1
      <4> HIDE DEF z, a
      <4>2. p \in CalendarDays /\ DateOf[p].day = p - MonthStart[z][a] + 1
        BY <3>1, <4>1, DaysOfMonth
      <4> QED
        BY <4>2 DEF z, a
    <3> QED
      BY <1>1, <2>1, <3>1, <3>2
  <2>3. first \in Nat /\ first <= MonthStart[y][13]
    BY <1>1, <2>1
  <2> QED
    BY <2>2, <2>3 DEF first
<1>3. CASE m < 12
  <2> DEFINE a == m + 1
             last == LastDayOfMonth(a, y)
  <2>1. a \in 1..12
    BY <1>3
  <2>2. /\ MonthStart[y][a] \in Nat /\ last \in 28..31
        /\ MonthStart[y][a + 1] = MonthStart[y][a] + last
        /\ MonthStart[y][a] + last <= MonthStart[y][13]
    BY <2>1, MonthStarts
  <2>3. ASSUME NEW p \in first..(first + k - 2)
        PROVE  p \in CalendarDays /\ DateOf[p].day < k
    <3>1. CASE p < first + last
      <4>1. p \in CalendarDays /\ DateOf[p].day = p - MonthStart[y][a] + 1
        <5>1. p \in Int /\ p >= MonthStart[y][a] /\ p < MonthStart[y][a] + LastDayOfMonth(a, y)
          BY <2>2, <3>1
        <5> HIDE DEF a, last
        <5> QED
          BY <2>1, <5>1, DaysOfMonth
      <4> QED
        BY <2>2, <4>1
    <3>2. CASE p >= first + last
      <4>1. a < 12
        <5> SUFFICES ASSUME a = 12 PROVE FALSE
          BY <2>1
        <5>1. last = 31
          BY DEF LastDayOfMonth
        <5> QED
          BY <2>2, <3>2, <5>1
      <4> DEFINE b == a + 1
      <4>2. b \in 1..12 /\ MonthStart[y][b] = first + last
        BY <2>1, <2>2, <4>1
      <4>3. LastDayOfMonth(b, y) \in 28..31
        BY <4>2, MonthStarts
      <4> HIDE DEF b
      <4>4. p < MonthStart[y][b] + LastDayOfMonth(b, y) /\ p >= MonthStart[y][b] /\ p \in Int
        BY <2>2, <3>2, <4>2, <4>3
      <4>5. p \in CalendarDays /\ DateOf[p].day = p - MonthStart[y][b] + 1
        BY <4>2, <4>4, DaysOfMonth
      <4> QED
        BY <2>2, <3>2, <4>2, <4>5
    <3> QED
      BY <2>2, <3>1, <3>2
  <2>4. first \in Nat /\ first <= MonthStart[y][13]
    BY <1>1, <2>2
  <2> QED
    BY <2>3, <2>4
<1> QED
  BY <1>2, <1>3

\* The day the calendar is set to
TargetDay(t) == MonthStart[Year(t)][DayTarget(t).month] + DayTarget(t).day - 1

\* The day the calendar stands on
Here(t) == [day |-> Day(t), month |-> Month(t)]

\* A rule that stays where the day is meant, and else goes on and passes no day that is
KeepsDays(t) ==
  /\ TargetDay(t) \in Nat /\ TargetDay(t) <= MonthStart[Year(t)][13] + 30
  /\ DayTarget(t) = Here(t) => DayMeant(AsCoded, DayNumber(t))
  /\ DayTarget(t) # Here(t) =>
       /\ DayNumber(t) < TargetDay(t)
       /\ \A p \in DayNumber(t)..TargetDay(t)-1 : p \in CalendarDays /\ ~DayMeant(AsCoded, p)

\* A rule that goes on in the month, to the first day that is meant, keeps the days.
LEMMA StaysInMonth ==
  ASSUME NEW t \in Nat, t < CalendarEnd, NEW k \in Day(t)..LastDayOfMonth(Month(t), Year(t)),
         DayTarget(t) = [day |-> k, month |-> Month(t)],
         k = Day(t) => DayMeant(AsCoded, DayNumber(t)),
         \A j \in Day(t)..k-1 :
           ~DayMeant(AsCoded, MonthStart[Year(t)][Month(t)] + j - 1)
  PROVE  KeepsDays(t)
<1> DEFINE y == Year(t)
           m == Month(t)
           d == Day(t)
           n == DayNumber(t)
           last == LastDayOfMonth(m, y)
           first == MonthStart[y][m]
<1>1. /\ y \in CalendarYears /\ m \in 1..12 /\ d \in 1..last /\ last \in 28..31
      /\ first \in Nat /\ n = first + d - 1
  BY InstantDated
<1>2. first + last <= MonthStart[y][13] /\ MonthStart[y][13] \in Nat
  <2> HIDE DEF y, m
  <2>1. MonthStart[y][m] + LastDayOfMonth(m, y) <= MonthStart[y][13] /\ MonthStart[y][13] \in Nat
    BY <1>1, MonthStarts
  <2> QED
    BY <2>1
<1>3. TargetDay(t) = first + k - 1
  BY DEF TargetDay
<1>4. k \in Int /\ k >= d /\ k <= last
  BY <1>1
<1>5. DayTarget(t) = Here(t) <=> k = d
  BY DEF Here
<1>6. ASSUME NEW p \in n..(first + k - 1)-1
      PROVE  p \in CalendarDays /\ ~DayMeant(AsCoded, p)
  <2> DEFINE j == p - first + 1
  <2>1. j \in d..k-1 /\ p = first + j - 1 /\ p \in Int /\ p >= first /\ p < first + last
    BY <1>1, <1>4
  <2>2. p \in CalendarDays
    <3> HIDE DEF y, m
    <3> QED
      BY <1>1, <2>1, DaysOfMonth
  <2>3. ~DayMeant(AsCoded, first + j - 1)
    <3> HIDE DEF j
    <3> QED
      BY <2>1
  <2> QED
    BY <2>1, <2>2, <2>3
<1> HIDE DEF y, m, d, n, last, first
<1>7. first + k - 1 \in Nat /\ first + k - 1 <= MonthStart[y][13] + 30 /\ (k # d => n < first + k - 1)
  BY <1>1, <1>2, <1>4
<1> QED
  BY <1>3, <1>5, <1>6, <1>7 DEF KeepsDays, y, n, d

\* So does one that goes on to a day of the next month, if neither what is left of this
\* month nor what lies before that day of the next is meant.
LEMMA GoesToNextMonth ==
  ASSUME NEW t \in Nat, t < CalendarEnd, Year(t) < LastYear, NEW k \in 1..31,
         DayTarget(t) = [day |-> k, month |-> Month(t) + 1],
         \A j \in Day(t)..LastDayOfMonth(Month(t), Year(t)) :
           ~DayMeant(AsCoded, MonthStart[Year(t)][Month(t)] + j - 1),
         \A p \in CalendarDays : DateOf[p].day < k => ~DayMeant(AsCoded, p)
  PROVE  KeepsDays(t)
<1> DEFINE y == Year(t)
           m == Month(t)
           d == Day(t)
           n == DayNumber(t)
           last == LastDayOfMonth(m, y)
           first == MonthStart[y][m]
           next == MonthStart[y][m + 1]
<1>1. /\ y \in CalendarYears /\ m \in 1..12 /\ d \in 1..last /\ last \in 28..31
      /\ first \in Nat /\ n = first + d - 1 /\ y < LastYear
  BY InstantDated
<1>2. /\ next \in Nat /\ next = first + last /\ next <= MonthStart[y][13]
      /\ MonthStart[y][13] \in Nat
      /\ \A p \in next..(next + k - 2) : p \in CalendarDays /\ DateOf[p].day < k
  <2> HIDE DEF y, m
  <2>1. MonthStart[y][m + 1] = MonthStart[y][m] + LastDayOfMonth(m, y) /\ MonthStart[y][13] \in Nat
    BY <1>1, MonthStarts
  <2>2. /\ MonthStart[y][m + 1] \in Nat
        /\ MonthStart[y][m + 1] <= MonthStart[y][13]
        /\ \A p \in MonthStart[y][m + 1]..(MonthStart[y][m + 1] + k - 2) :
              p \in CalendarDays /\ DateOf[p].day < k
    BY <1>1, DaysOfNextMonth
  <2> QED
    BY <2>1, <2>2
<1>3. TargetDay(t) = next + k - 1
  BY DEF TargetDay
<1>4. DayTarget(t) # Here(t)
  <2>1. m + 1 # m
    BY <1>1
  <2> QED
    BY <2>1 DEF Here
<1>5. ASSUME NEW p \in n..(next + k - 1)-1
      PROVE  p \in CalendarDays /\ ~DayMeant(AsCoded, p)
  <2>1. CASE p < next
    <3> DEFINE j == p - first + 1
    <3>1. j \in d..last /\ p = first + j - 1 /\ p \in Int /\ p >= first /\ p < first + last
      BY <1>1, <1>2, <2>1
    <3>2. p \in CalendarDays
      <4> HIDE DEF y, m
      <4> QED
        BY <1>1, <3>1, DaysOfMonth
    <3>3. ~DayMeant(AsCoded, first + j - 1)
      <4> HIDE DEF j
      <4> QED
        BY <3>1
    <3> QED
      BY <3>1, <3>2, <3>3
  <2>2. CASE p >= next
    <3>1. p \in next..(next + k - 2)
      BY <1>1, <1>2, <2>2
    <3> QED
      BY <1>2, <3>1
  <2> QED
    BY <1>1, <1>2, <2>1, <2>2
<1> HIDE DEF y, m, d, n, last, first, next
<1>6. next + k - 1 \in Nat /\ next + k - 1 <= MonthStart[y][13] + 30 /\ n < next + k - 1
  BY <1>1, <1>2
<1> QED
  BY <1>3, <1>4, <1>5, <1>6 DEF KeepsDays, y, n

\* The month of an instant: its days and their dates
LEMMA MonthOf ==
  ASSUME NEW t \in Nat, t < CalendarEnd
  PROVE  /\ Year(t) \in CalendarYears /\ Month(t) \in 1..12 /\ Month(t) \in Int
         /\ MonthStart[Year(t)][Month(t)] \in Nat
         /\ LastDayOfMonth(Month(t), Year(t)) \in 28..31
         /\ Day(t) \in 1..LastDayOfMonth(Month(t), Year(t))
         /\ DayNumber(t) = MonthStart[Year(t)][Month(t)] + Day(t) - 1
         /\ \A j \in 1..LastDayOfMonth(Month(t), Year(t)) :
              /\ MonthStart[Year(t)][Month(t)] + j - 1 \in CalendarDays
              /\ DateOf[MonthStart[Year(t)][Month(t)] + j - 1].year = Year(t)
              /\ DateOf[MonthStart[Year(t)][Month(t)] + j - 1].month = Month(t)
              /\ DateOf[MonthStart[Year(t)][Month(t)] + j - 1].day = j
<1> DEFINE y == Year(t)
           m == Month(t)
<1>1. /\ y \in CalendarYears /\ m \in 1..12 /\ m \in Int
      /\ MonthStart[y][m] \in Nat
      /\ LastDayOfMonth(m, y) \in 28..31
      /\ Day(t) \in 1..LastDayOfMonth(m, y)
      /\ DayNumber(t) = MonthStart[y][m] + Day(t) - 1
  <2>1. m \in 1..12
    BY InstantDated
  <2>2. m \in Int
    BY <2>1
  <2> QED
    BY <2>1, <2>2, InstantDated
<1> HIDE DEF y, m
<1>2. ASSUME NEW j \in 1..LastDayOfMonth(m, y)
      PROVE  /\ MonthStart[y][m] + j - 1 \in CalendarDays
             /\ DateOf[MonthStart[y][m] + j - 1].year = y
             /\ DateOf[MonthStart[y][m] + j - 1].month = m
             /\ DateOf[MonthStart[y][m] + j - 1].day = j
  <2>1. /\ MonthStart[y][m] + j - 1 \in CalendarDays
        /\ DateOf[MonthStart[y][m] + j - 1] = [year |-> y, month |-> m, day |-> j]
    BY <1>1, DateOfDay
  <2> QED
    BY <2>1
<1> QED
  BY <1>1, <1>2 DEF y, m

\* The rule of the day of the month, for numbers
LEMMA NumbersOfMonthKeep ==
  ASSUME NumbersOfMonth, NEW t \in Nat, t < CalendarEnd, Year(t) < LastYear
  PROVE  KeepsDays(t)
<1> DEFINE y == Year(t)
           m == Month(t)
           d == Day(t)
           last == LastDayOfMonth(m, y)
           first == MonthStart[y][m]
           S == expr.daysOfMonth
           tail == TailSet(S, d)
<1>1. /\ d \in 1..last /\ last \in 28..31 /\ DayNumber(t) = first + d - 1
      /\ \A j \in 1..last : DayMeant(AsCoded, first + j - 1) <=> j \in S
  BY MonthOf DEF NumbersOfMonth
<1>2. \A p \in CalendarDays : DayMeant(AsCoded, p) <=> DateOf[p].day \in S
  BY DEF NumbersOfMonth
<1>3. S \in SUBSET Nat /\ S # {} /\ (S \subseteq 1..31 \/ 1..31 \subseteq S)
  BY DEF NumbersOfMonth, Shaped
<1>4. DayTarget(t) = IF tail # {} /\ Min(tail) <= last THEN [day |-> Min(tail), month |-> m]
                     ELSE [day |-> Min(S), month |-> m + 1]
  BY DEF NumbersOfMonth, DayTarget, DayOfMonthTarget
<1>5. /\ tail \in SUBSET Nat /\ \A j : j \in tail <=> j \in S /\ j >= d
      /\ \A j \in S : j \in Int
  BY <1>3 DEF TailSet
<1> HIDE DEF tail, S
<1>6. CASE tail # {} /\ Min(tail) <= last
  <2> DEFINE k == Min(tail)
  <2>1. k \in tail /\ \A j \in tail : k <= j
    BY <1>5, <1>6, LeastOf
  <2>2. DayTarget(t) = [day |-> k, month |-> m] /\ k <= last
    BY <1>4, <1>6
  <2> HIDE DEF k
  <2>3. k \in d..last /\ k \in S /\ k \in 1..last
    BY <1>1, <1>5, <2>1, <2>2
  <2>4. k = d => DayMeant(AsCoded, DayNumber(t))
    BY <1>1, <2>3
  <2>5. ASSUME NEW j \in d..k-1 PROVE ~DayMeant(AsCoded, first + j - 1)
    <3>1. j \in 1..last /\ j >= d /\ j \in Int /\ ~(k <= j)
      BY <1>1, <2>3
    <3> QED
      BY <1>1, <1>5, <2>1, <3>1
  <2> QED
    BY <2>2, <2>3, <2>4, <2>5, StaysInMonth
<1>7. CASE ~(tail # {} /\ Min(tail) <= last)
  <2> DEFINE k == Min(S)
  <2>1. ASSUME NEW j \in d..last PROVE j \notin S
    <3> SUFFICES ASSUME j \in S PROVE FALSE
      OBVIOUS
    <3>1. j \in tail /\ j <= last /\ j \in Int
      BY <1>1, <1>5
    <3>2. Min(tail) \in tail /\ Min(tail) <= j
      BY <1>5, <3>1, LeastOf
    <3>3. Min(tail) \in Int
      BY ONLY <1>5, <3>2
    <3>4. last \in Int
      BY <1>1
    <3> QED
      BY <1>7, <3>1, <3>2, <3>3, <3>4
  <2>2. k \in S /\ \A j \in S : k <= j
    BY <1>3, LeastOf
  <2>3. DayTarget(t) = [day |-> k, month |-> m + 1]
    BY <1>4, <1>7
  <2> HIDE DEF k
  <2>4. k \in 1..31
    <3>1. last \in 1..31 /\ last \notin S
      BY <1>1, <2>1
    <3> QED
      BY <1>3, <2>2, <3>1
  <2>5. ASSUME NEW j \in d..last PROVE ~DayMeant(AsCoded, first + j - 1)
    <3>1. j \in 1..last
      BY <1>1
    <3> QED
      BY <1>1, <2>1, <3>1
  <2>6. ASSUME NEW p \in CalendarDays, DateOf[p].day < k PROVE ~DayMeant(AsCoded, p)
    <3> SUFFICES ASSUME DateOf[p].day \in S PROVE FALSE
      BY <1>2
    <3>1. k <= DateOf[p].day /\ DateOf[p].day \in Int /\ k \in Int
      BY <1>5, <2>2, <2>4
    <3> QED
      BY <2>6, <3>1
  <2> QED
    BY <2>3, <2>4, <2>5, <2>6, GoesToNextMonth
<1> QED
  BY <1>6, <1>7

\* The rule of the day of the month, for L and L-n
LEMMA LastOfMonthKeep ==
  ASSUME LastOfMonth, NEW t \in Nat, t < CalendarEnd, Year(t) < LastYear
  PROVE  KeepsDays(t)
<1> DEFINE y == Year(t)
           m == Month(t)
           d == Day(t)
           last == LastDayOfMonth(m, y)
           first == MonthStart[y][m]
           k == last - expr.lastdayOffset
<1>1. /\ d \in 1..last /\ last \in 28..31 /\ DayNumber(t) = first + d - 1
      /\ \A j \in 1..last : DayMeant(AsCoded, first + j - 1) <=> j = k
  BY MonthOf DEF LastOfMonth
<1>2. expr.lastdayOffset \in 0..30
  BY DEF LastOfMonth
<1>3. DayTarget(t) = IF d > k THEN [day |-> 1, month |-> m + 1] ELSE [day |-> k, month |-> m]
  BY DEF LastOfMonth, DayTarget, DayOfMonthTarget
<1>4. CASE d <= k
  <2>1. k \in d..last /\ k \in 1..last /\ k \in Int
    BY <1>1, <1>2, <1>4
  <2>2. DayTarget(t) = [day |-> k, month |-> m]
    BY <1>1, <1>3, <1>4, <2>1
  <2> HIDE DEF k
  <2>3. ASSUME NEW j \in d..k-1 PROVE ~DayMeant(AsCoded, first + j - 1)
    <3>1. j \in 1..last /\ j # k
      BY <1>1, <2>1
    <3> QED
      BY <1>1, <3>1
  <2>4. k = d => DayMeant(AsCoded, DayNumber(t))
    BY <1>1, <2>1
  <2> QED
    BY <2>1, <2>2, <2>3, <2>4, StaysInMonth
<1>5. CASE ~(d <= k)
  <2>1. k \in Int
    BY <1>1, <1>2
  <2>2. DayTarget(t) = [day |-> 1, month |-> m + 1]
    BY <1>1, <1>3, <1>5, <2>1
  <2> HIDE DEF k
  <2>3. ASSUME NEW j \in d..last PROVE ~DayMeant(AsCoded, first + j - 1)
    <3>1. j \in 1..last /\ j # k
      BY <1>1, <1>5, <2>1
    <3> QED
      BY <1>1, <3>1
  <2>4. ASSUME NEW p \in CalendarDays, DateOf[p].day < 1 PROVE ~DayMeant(AsCoded, p)
    <3>1. DateOf[p].day \in 1..LastDayOfMonth(DateOf[p].month, DateOf[p].year)
          /\ LastDayOfMonth(DateOf[p].month, DateOf[p].year) \in 28..31
      BY Dated, MonthStarts
    <3> QED
      BY <2>4, <3>1
  <2>5. 1 \in 1..31
    OBVIOUS
  <2> QED
    BY <2>2, <2>3, <2>4, <2>5, GoesToNextMonth
<1> QED
  BY <1>4, <1>5

\* Going on to the first of the next month passes no day of that month.
LEMMA GoesToFirst ==
  ASSUME NEW t \in Nat, t < CalendarEnd, Year(t) < LastYear,
         DayTarget(t) = [day |-> 1, month |-> Month(t) + 1],
         \A j \in Day(t)..LastDayOfMonth(Month(t), Year(t)) :
           ~DayMeant(AsCoded, MonthStart[Year(t)][Month(t)] + j - 1)
  PROVE  KeepsDays(t)
<1>1. ASSUME NEW p \in CalendarDays, DateOf[p].day < 1 PROVE ~DayMeant(AsCoded, p)
  <2>1. DateOf[p].day \in 1..LastDayOfMonth(DateOf[p].month, DateOf[p].year)
        /\ LastDayOfMonth(DateOf[p].month, DateOf[p].year) \in 28..31
    BY Dated, MonthStarts
  <2> QED
    BY <1>1, <2>1
<1>2. 1 \in 1..31
  OBVIOUS
<1> QED
  BY <1>1, <1>2, GoesToNextMonth

\* The next day of the week w: it comes once within seven days.
LEMMA WeekdayAhead ==
  ASSUME NEW n \in Int, NEW w \in 1..7, NEW off,
         off = (w - DayOfWeek(n)) + IF DayOfWeek(n) > w THEN 7 ELSE 0
  PROVE  off \in 0..6 /\ DayOfWeek(n + off) = w
<1>1. DayOfWeek(n) \in 1..7
  <2>1. 0 \in -2..6
    OBVIOUS
  <2> QED
    BY <2>1, WeekGoesRound
<1>2. off \in 0..6 /\ off \in -2..6
  BY <1>1
<1>3. DayOfWeek(n + off) = IF DayOfWeek(n) + off > 7 THEN DayOfWeek(n) + off - 7
                               ELSE IF DayOfWeek(n) + off < 1 THEN DayOfWeek(n) + off + 7
                               ELSE DayOfWeek(n) + off
  BY <1>2, WeekGoesRound
<1> QED
  BY <1>1, <1>2, <1>3

\* Two days within seven that are the same day of the week are one.
LEMMA OneOfSeven ==
  ASSUME NEW a \in Int, NEW b \in Int, a <= b, b < a + 7, DayOfWeek(a) = DayOfWeek(b)
  PROVE  a = b
<1> DEFINE k == b - a
<1>1. k \in -2..6 /\ b = a + k /\ k \in 0..6
  OBVIOUS
<1> HIDE DEF k
<1>2. DayOfWeek(a) \in 1..7
      /\ DayOfWeek(a + k) = IF DayOfWeek(a) + k > 7 THEN DayOfWeek(a) + k - 7
                               ELSE IF DayOfWeek(a) + k < 1 THEN DayOfWeek(a) + k + 7
                               ELSE DayOfWeek(a) + k
  BY <1>1, WeekGoesRound
<1> QED
  BY <1>1, <1>2

\* The rule of the day of the week, for numbers
LEMMA NumbersOfWeekKeep ==
  ASSUME NumbersOfWeek, NEW t \in Nat, t < CalendarEnd, Year(t) < LastYear
  PROVE  KeepsDays(t)
<1> DEFINE y == Year(t)
           m == Month(t)
           d == Day(t)
           n == DayNumber(t)
           last == LastDayOfMonth(m, y)
           first == MonthStart[y][m]
           S == expr.daysOfWeek
           v == DayOfWeek(n)
           f == Following(S, v)
           off == (f - v) + IF v > f THEN 7 ELSE 0
           day == d + (f - v) + IF v > f THEN 7 ELSE 0
<1>1. /\ d \in 1..last /\ last \in 28..31 /\ n = first + d - 1 /\ first \in Nat
      /\ \A j \in 1..last : DayMeant(AsCoded, first + j - 1) <=> DayOfWeek(first + j - 1) \in S
  BY MonthOf DEF NumbersOfWeek
<1>2. n \in Int /\ v \in 1..7 /\ Shaped(S, 1, 7) /\ \A s \in S : s \in Int
  <2>1. n \in Int /\ 0 \in -2..6
    BY <1>1
  <2> QED
    BY <2>1, WeekGoesRound DEF NumbersOfWeek, Shaped
<1>3. DayTarget(t) = IF 0 < 0 \/ day + 7 * 0 > last THEN [day |-> 1, month |-> m + 1]
                     ELSE [day |-> day + 7 * 0, month |-> m]
  BY DEF NumbersOfWeek, DayTarget, DayOfWeekTarget
<1> HIDE DEF v, S, n, last, first, y, m, d
<1>4. /\ f \in 1..7 /\ f \in S
      /\ \/ f >= v /\ \A s \in S : s >= v => s >= f
         \/ \A s \in S : s < v /\ s >= f
  <2>1. 1 \in Nat /\ 7 \in Nat
    OBVIOUS
  <2> QED
    BY <1>2, <2>1, FollowingValue
<1> HIDE DEF f
<1>5. off \in 0..6 /\ DayOfWeek(n + off) = f
  BY <1>2, <1>4, WeekdayAhead DEF v
<1>6. day = d + off /\ d \in Int
  BY <1>1, <1>2, <1>4
<1>7. ASSUME NEW e \in 0..off-1 PROVE DayOfWeek(n + e) \notin S
  <2>1. e \in -2..6 /\ e \in 0..6
    BY <1>5
  <2> HIDE DEF off
  <2>2. DayOfWeek(n + e) = IF v + e > 7 THEN v + e - 7
                               ELSE IF v + e < 1 THEN v + e + 7
                               ELSE v + e
    BY <1>2, <2>1, WeekGoesRound DEF v
  <2> DEFINE s == DayOfWeek(n + e)
  <2> HIDE DEF s
  <2>3. CASE v > f
    <3>1. off = f - v + 7
      BY <2>3, <1>2, <1>4 DEF off
    <3>2. (s >= v \/ s < f) /\ s \in Int
      BY <1>2, <1>4, <2>1, <2>2, <3>1 DEF s
    <3>3. f \in S /\ ~(f >= v)
      BY <1>2, <1>4, <2>3
    <3>4. \A r \in S : r < v /\ r >= f
      BY ONLY <1>4, <3>3
    <3>5. s \in S => s < v /\ s >= f
      BY ONLY <3>4
    <3>6. s \notin S
      BY ONLY <1>2, <1>4, <3>2, <3>5
    <3> QED
      BY <3>6 DEF s
  <2>4. CASE ~(v > f)
    <3>1. off = f - v
      BY <2>4, <1>2, <1>4 DEF off
    <3>2. s = v + e /\ s \in Int
      BY <1>2, <1>4, <2>1, <2>2, <3>1 DEF s
    <3>3. s >= v /\ s < f
      BY <1>2, <1>4, <2>1, <3>1, <3>2
    <3>4. s \in S => s >= f
      BY <1>2, <1>4, <2>4, <3>2, <3>3
    <3>5. s \notin S
      BY <1>4, <3>2, <3>3, <3>4
    <3> QED
      BY <3>5 DEF s
  <2> QED
    BY <2>3, <2>4
<1> HIDE DEF day, off
<1>8. ASSUME NEW j \in Int, j >= d, j < day, j <= last PROVE ~DayMeant(AsCoded, first + j - 1)
  <2> DEFINE e == j - d
  <2>1. e \in 0..off-1 /\ first + j - 1 = n + e /\ j \in 1..last
    BY <1>1, <1>5, <1>6, <1>8
  <2> HIDE DEF e
  <2> QED
    BY <1>1, <1>7, <2>1
<1>9. CASE day <= last
  <2>1. DayTarget(t) = [day |-> day, month |-> m]
    BY <1>1, <1>3, <1>5, <1>6, <1>9
  <2>2. day \in d..last /\ day \in Int
    BY <1>1, <1>5, <1>6, <1>9
  <2>3. day = d => DayMeant(AsCoded, n)
    <3>1. day = d => off = 0
      BY <1>5, <1>6
    <3>2. day = d => v = f
      BY <1>2, <1>5, <3>1 DEF v
    <3> QED
      BY <1>1, <1>4, <3>2 DEF v
  <2>4. \A j \in d..day-1 : ~DayMeant(AsCoded, first + j - 1)
    BY <1>1, <1>8, <2>2
  <2> QED
    BY <2>1, <2>2, <2>3, <2>4, StaysInMonth DEF y, m, d, n, last, first
<1>10. CASE ~(day <= last)
  <2>1. DayTarget(t) = [day |-> 1, month |-> m + 1]
    BY <1>1, <1>3, <1>5, <1>6, <1>10
  <2>2. \A j \in d..last : ~DayMeant(AsCoded, first + j - 1)
    <3>1. day \in Int /\ d \in Int /\ last \in Int
      BY <1>1, <1>5, <1>6
    <3> QED
      BY <1>8, <1>10, <3>1
  <2> QED
    BY <2>1, <2>2, GoesToFirst DEF y, m, d, last, first
<1> QED
  BY <1>9, <1>10

\* A day of the week that the code finds a number of weeks after its next date: the
\* rules for aL and a#n.  Of the days meant each month has at most one.
LEMMA OneWeekdayKeeps ==
  ASSUME NEW t \in Nat, t < CalendarEnd, Year(t) < LastYear,
         NEW w \in 1..7, NEW lo \in Int,
         \A j \in 1..LastDayOfMonth(Month(t), Year(t)) :
           DayMeant(AsCoded, MonthStart[Year(t)][Month(t)] + j - 1) <=>
             /\ DayOfWeek(MonthStart[Year(t)][Month(t)] + j - 1) = w
             /\ j >= lo /\ j < lo + 7,
         NEW day \in Int,
         day = Day(t) + (w - DayOfWeek(DayNumber(t)))
                 + IF DayOfWeek(DayNumber(t)) > w THEN 7 ELSE 0,
         NEW weeks \in Int, day + 7 * weeks >= lo, day + 7 * weeks < lo + 7,
         DayTarget(t) = IF weeks < 0 \/ day + 7 * weeks > LastDayOfMonth(Month(t), Year(t))
                        THEN [day |-> 1, month |-> Month(t) + 1]
                        ELSE [day |-> day + 7 * weeks, month |-> Month(t)]
  PROVE  KeepsDays(t)
<1> DEFINE y == Year(t)
           m == Month(t)
           d == Day(t)
           n == DayNumber(t)
           last == LastDayOfMonth(m, y)
           first == MonthStart[y][m]
           v == DayOfWeek(n)
           off == (w - v) + IF v > w THEN 7 ELSE 0
           k == day + 7 * weeks
<1>1. /\ d \in 1..last /\ last \in 28..31 /\ n = first + d - 1 /\ first \in Nat
  BY MonthOf
<1>2. \A j \in 1..last : DayMeant(AsCoded, first + j - 1) <=>
        DayOfWeek(first + j - 1) = w /\ j >= lo /\ j < lo + 7
  OBVIOUS
<1>3. n \in Int /\ v \in 1..7
  <2>1. n \in Int /\ 0 \in -2..6
    BY <1>1
  <2> QED
    BY <2>1, WeekGoesRound
<1>4. DayTarget(t) = IF weeks < 0 \/ k > last THEN [day |-> 1, month |-> m + 1]
                     ELSE [day |-> k, month |-> m]
  OBVIOUS
<1>5. off \in 0..6 /\ DayOfWeek(n + off) = w
  BY <1>3, WeekdayAhead
<1>6. day = d + (w - v) + IF v > w THEN 7 ELSE 0
  OBVIOUS
<1> HIDE DEF y, m, d, n, last, first, v
<1>7. day = d + off /\ d \in Int
  BY <1>1, <1>3, <1>6
<1> HIDE DEF off
<1>8. k \in Int /\ DayOfWeek(first + k - 1) = w
  <2>1. first + k - 1 = (n + off) + 7 * weeks /\ n + off \in Int /\ k \in Int
    BY <1>1, <1>3, <1>5, <1>7
  <2>2. DayOfWeek((n + off) + 7 * weeks) = DayOfWeek(n + off)
    BY <2>1, WeeksGoBy
  <2> QED
    BY <1>5, <2>1, <2>2
<1>9. k >= lo /\ k < lo + 7
  OBVIOUS
<1>10. weeks < 0 => k < d
  BY <1>5, <1>7
<1>11. weeks >= 0 => k >= d
  BY <1>5, <1>7
<1> HIDE DEF k
\* only k is meant
<1>12. ASSUME NEW j \in 1..last, DayMeant(AsCoded, first + j - 1) PROVE j = k
  <2> DEFINE a == first + j - 1
             b == first + k - 1
  <2>1. DayOfWeek(a) = w /\ j >= lo /\ j < lo + 7 /\ j \in Int
    <3>1. j \in Int
      BY <1>1
    <3> QED
      BY ONLY <1>2, <1>12, <3>1
  <2>2. a \in Int /\ b \in Int /\ b < a + 7 /\ a < b + 7 /\ DayOfWeek(a) = DayOfWeek(b)
    BY <1>1, <1>8, <1>9, <2>1
  <2> HIDE DEF a, b
  <2>3. a = b
    BY <2>2, OneOfSeven
  <2>4. first \in Int /\ j \in Int /\ k \in Int
    BY <1>1, <1>8
  <2>5. first + j - 1 = first + k - 1
    BY <2>3 DEF a, b
  <2> QED
    BY ONLY <2>4, <2>5
<1>13. CASE weeks < 0 \/ k > last
  <2>1. DayTarget(t) = [day |-> 1, month |-> m + 1]
    BY <1>4, <1>13
  <2>2. ASSUME NEW j \in d..last PROVE ~DayMeant(AsCoded, first + j - 1)
    <3>1. j \in 1..last /\ j # k
      BY <1>1, <1>7, <1>8, <1>10, <1>13
    <3> QED
      BY <1>12, <3>1
  <2> QED
    BY <2>1, <2>2, GoesToFirst DEF y, m, d, last, first
<1>14. CASE ~(weeks < 0 \/ k > last)
  <2>1. DayTarget(t) = [day |-> k, month |-> m]
    BY <1>4, <1>14
  <2>2. k \in d..last /\ k \in 1..last
    BY <1>1, <1>8, <1>11, <1>14
  <2>3. DayMeant(AsCoded, first + k - 1)
    BY <1>2, <1>8, <1>9, <2>2
  <2>4. k = d => DayMeant(AsCoded, n)
    BY <1>1, <2>3
  <2>5. ASSUME NEW j \in d..k-1 PROVE ~DayMeant(AsCoded, first + j - 1)
    <3>1. j \in 1..last /\ j # k
      BY <1>1, <2>2
    <3> QED
      BY <1>12, <3>1
  <2> QED
    BY <2>1, <2>2, <2>4, <2>5, StaysInMonth DEF y, m, d, n, last, first
<1> QED
  BY <1>13, <1>14

\* The rule of the day of the week, for aL
LEMMA LastOfWeekKeep ==
  ASSUME LastOfWeek, NEW t \in Nat, t < CalendarEnd, Year(t) < LastYear
  PROVE  KeepsDays(t)
<1> DEFINE y == Year(t)
           m == Month(t)
           n == DayNumber(t)
           last == LastDayOfMonth(m, y)
           first == MonthStart[y][m]
           w == Min(expr.daysOfWeek)
           v == DayOfWeek(n)
           day == Day(t) + (w - v) + IF v > w THEN 7 ELSE 0
           weeks == (last - day) \div 7
           lo == last - 6
<1>1. /\ Day(t) \in 1..last /\ last \in 28..31 /\ n = first + Day(t) - 1 /\ first \in Nat
      /\ \A j \in 1..last : DayMeant(AsCoded, first + j - 1) <=>
           DayOfWeek(first + j - 1) = w /\ j + 7 > last
  BY MonthOf DEF LastOfWeek
<1>2. w \in 1..7
  BY DEF LastOfWeek
<1>3. DayTarget(t) = IF weeks < 0 \/ day + 7 * weeks > last THEN [day |-> 1, month |-> m + 1]
                     ELSE [day |-> day + 7 * weeks, month |-> m]
  BY DEF LastOfWeek, DayTarget, DayOfWeekTarget
<1>4. n \in Int /\ v \in 1..7
  <2>1. n \in Int /\ 0 \in -2..6
    BY <1>1
  <2> QED
    BY <2>1, WeekGoesRound
<1> HIDE DEF w, v
<1>5. day \in Int /\ lo \in Int /\ last \in Int
  BY <1>1, <1>2, <1>4
<1>6. \A j \in 1..last : DayMeant(AsCoded, first + j - 1) <=>
        DayOfWeek(first + j - 1) = w /\ j >= lo /\ j < lo + 7
  BY <1>1
<1>7. day = Day(t) + (w - v) + IF v > w THEN 7 ELSE 0
  OBVIOUS
<1> HIDE DEF day
<1>8. weeks \in Int /\ day + 7 * weeks >= lo /\ day + 7 * weeks < lo + 7
  BY <1>5
<1> HIDE DEF weeks, lo
<1> QED
  BY <1>2, <1>3, <1>5, <1>6, <1>7, <1>8, OneWeekdayKeeps DEF v

\* The rule of the day of the week, for a#n
LEMMA NthOfWeekKeep ==
  ASSUME NthOfWeek, NEW t \in Nat, t < CalendarEnd, Year(t) < LastYear
  PROVE  KeepsDays(t)
<1> DEFINE y == Year(t)
           m == Month(t)
           n == DayNumber(t)
           last == LastDayOfMonth(m, y)
           first == MonthStart[y][m]
           w == Min(expr.daysOfWeek)
           v == DayOfWeek(n)
           nth == expr.nthdayOfWeek
           day == Day(t) + (w - v) + IF v > w THEN 7 ELSE 0
           weeks == nth - ((day + 6) \div 7)
           lo == 7 * nth - 6
<1>1. /\ Day(t) \in 1..last /\ last \in 28..31 /\ n = first + Day(t) - 1 /\ first \in Nat
      /\ \A j \in 1..last : DayMeant(AsCoded, first + j - 1) <=>
           DayOfWeek(first + j - 1) = w /\ (j + 6) \div 7 = nth
  <2>1. /\ Day(t) \in 1..last /\ last \in 28..31 /\ n = first + Day(t) - 1 /\ first \in Nat
        /\ \A j \in 1..last : first + j - 1 \in CalendarDays /\ DateOf[first + j - 1].day = j
    BY MonthOf
  <2>2. ASSUME NEW j \in 1..last
        PROVE  DayMeant(AsCoded, first + j - 1) <=>
                 DayOfWeek(first + j - 1) = w /\ (j + 6) \div 7 = nth
    <3>1. \A p \in CalendarDays :
            DayMeant(AsCoded, p) <=> DayOfWeek(p) = w /\ (DateOf[p].day + 6) \div 7 = nth
      BY DEF NthOfWeek
    <3> DEFINE p == first + j - 1
    <3>2. p \in CalendarDays /\ DateOf[p].day = j
      BY <2>1
    <3> HIDE DEF p
    <3>3. DayMeant(AsCoded, p) <=> DayOfWeek(p) = w /\ (DateOf[p].day + 6) \div 7 = nth
      BY <3>1, <3>2
    <3> QED
      BY <3>2, <3>3 DEF p
  <2> QED
    BY <2>1, <2>2
<1>2. w \in 1..7 /\ nth \in 1..5
  BY DEF NthOfWeek
<1>3. DayTarget(t) = IF weeks < 0 \/ day + 7 * weeks > last THEN [day |-> 1, month |-> m + 1]
                     ELSE [day |-> day + 7 * weeks, month |-> m]
  <2>1. ~expr.lastdayOfWeek /\ expr.nthdayOfWeek # 0 /\ NoSpec \notin expr.daysOfWeek
    BY <1>2 DEF NthOfWeek
  <2> QED
    BY <2>1 DEF DayTarget, DayOfWeekTarget
<1>4. n \in Int /\ v \in 1..7
  <2>1. n \in Int /\ 0 \in -2..6
    BY <1>1
  <2> QED
    BY <2>1, WeekGoesRound
<1> HIDE DEF w, v, nth
<1>5. day \in Int /\ lo \in Int /\ last \in Int
  BY <1>1, <1>2, <1>4
<1>6. ASSUME NEW j \in 1..last PROVE
        DayMeant(AsCoded, first + j - 1) <=>
          DayOfWeek(first + j - 1) = w /\ j >= lo /\ j < lo + 7
  <2>1. (j + 6) \div 7 = nth <=> j >= lo /\ j < lo + 7
    BY <1>1, <1>2
  <2> QED
    BY <1>1, <2>1
<1>7. day = Day(t) + (w - v) + IF v > w THEN 7 ELSE 0
  OBVIOUS
<1> HIDE DEF day
<1>8. weeks \in Int /\ day + 7 * weeks >= lo /\ day + 7 * weeks < lo + 7
  BY <1>2, <1>5
<1> HIDE DEF weeks, lo
<1>9. \A j \in 1..last : DayMeant(AsCoded, first + j - 1) <=>
        DayOfWeek(first + j - 1) = w /\ j >= lo /\ j < lo + 7
  BY <1>6
<1> QED
  BY <1>2, <1>3, <1>5, <1>7, <1>8, <1>9, OneWeekdayKeeps DEF v

\* No other weekday of the days a..b is as near to aim as near.
NoneAsNear(a, b, aim, near) ==
  \A w \in a..b : IsWeekday(w) /\ w # near => Distance(near, aim) < Distance(w, aim)

\* The nearest weekday is the one that no other is as near as.
LEMMA NearestIsOne ==
  ASSUME NEW a \in Int, NEW b \in Int, NEW aim \in a..b, NEW near \in a..b, IsWeekday(near),
         NoneAsNear(a, b, aim, near),
         NEW n \in a..b
  PROVE  n = near <=>
           IsWeekday(n) /\ \A w \in a..b : IsWeekday(w) => Distance(n, aim) <= Distance(w, aim)
<1>1. ASSUME NEW w \in a..b PROVE w \in Int /\ Distance(w, aim) \in Int
  BY DEF Distance
<1>2. CASE n = near
  <2>1. ASSUME NEW w \in a..b, IsWeekday(w) PROVE Distance(near, aim) <= Distance(w, aim)
    <3>1. Distance(near, aim) \in Int /\ Distance(w, aim) \in Int
      BY <1>1
    <3>2. w # near => Distance(near, aim) < Distance(w, aim)
      BY <2>1 DEF NoneAsNear
    <3> QED
      BY <3>1, <3>2
  <2> QED
    BY <1>2, <2>1
<1>3. CASE n # near
  <2>1. IsWeekday(n) => Distance(near, aim) < Distance(n, aim)
    BY <1>3 DEF NoneAsNear
  <2>2. Distance(near, aim) \in Int /\ Distance(n, aim) \in Int
    BY <1>1
  <2>3. IsWeekday(n) => ~(Distance(n, aim) <= Distance(near, aim))
    BY <2>1, <2>2
  <2> QED
    BY <1>3, <2>3
<1> QED
  BY <1>2, <1>3

\* The two days before a day, and the two after
LEMMA DaysAround ==
  ASSUME NEW aim \in Int
  PROVE  /\ DayOfWeek(aim) \in 1..7
         /\ DayOfWeek(aim) = 7 =>
              /\ DayOfWeek(aim - 1) = 6 /\ DayOfWeek(aim + 1) = 1 /\ DayOfWeek(aim + 2) = 2
         /\ DayOfWeek(aim) = 1 =>
              /\ DayOfWeek(aim - 1) = 7 /\ DayOfWeek(aim - 2) = 6 /\ DayOfWeek(aim + 1) = 2
<1>1. ASSUME NEW k \in -2..6
      PROVE  /\ DayOfWeek(aim) \in 1..7
             /\ DayOfWeek(aim + k) = IF DayOfWeek(aim) + k > 7 THEN DayOfWeek(aim) + k - 7
                               ELSE IF DayOfWeek(aim) + k < 1 THEN DayOfWeek(aim) + k + 7
                               ELSE DayOfWeek(aim) + k
  BY WeekGoesRound
<1>2. /\ DayOfWeek(aim) = 7 =>
           DayOfWeek(aim + (-1)) = 6 /\ DayOfWeek(aim + 1) = 1 /\ DayOfWeek(aim + 2) = 2
      /\ DayOfWeek(aim) = 1 =>
           DayOfWeek(aim + (-1)) = 7 /\ DayOfWeek(aim + (-2)) = 6 /\ DayOfWeek(aim + 1) = 2
  <2>1. -1 \in -2..6 /\ -2 \in -2..6 /\ 1 \in -2..6 /\ 2 \in -2..6
    OBVIOUS
  <2> QED
    BY <1>1, <2>1
<1>3. aim + (-1) = aim - 1 /\ aim + (-2) = aim - 2
  OBVIOUS
<1>4. 0 \in -2..6
  OBVIOUS
<1> QED
  BY <1>1, <1>2, <1>3, <1>4

\* NearestWeekday finds the weekday nearest to a day of the month, and in the month.
LEMMA NearestWeekdayFound ==
  ASSUME NEW y \in CalendarYears, NEW m \in 1..12, NEW wanted \in 1..LastDayOfMonth(m, y)
  PROVE  /\ NearestWeekday(y, m, wanted) \in 1..LastDayOfMonth(m, y)
         /\ \A j \in 1..LastDayOfMonth(m, y) :
              IsNearestWeekday(MonthStart[y][m] + j - 1, wanted) <=> j = NearestWeekday(y, m, wanted)
<1> DEFINE first == MonthStart[y][m]
           last == LastDayOfMonth(m, y)
           aim == first + wanted - 1
           D == DayOfWeek(aim)
           near == NearestWeekday(y, m, wanted)
           b == first + last - 1
           best == first + near - 1
<1>1. first \in Nat /\ last \in 28..31
  BY MonthStarts
<1>2. near = wanted + CASE D = 7 /\ wanted = 1 -> 2
                 [] D = 7 /\ wanted # 1 -> -1
                 [] D = 1 /\ wanted = last -> -2
                 [] D = 1 /\ wanted # last -> 1
                 [] OTHER -> 0
  BY DEF NearestWeekday
<1>3. aim \in first..b /\ aim \in Int /\ wanted \in Int /\ b \in Int /\ first \in Int
  BY <1>1
<1>4. /\ D \in 1..7
      /\ D = 7 => DayOfWeek(aim - 1) = 6 /\ DayOfWeek(aim + 1) = 1 /\ DayOfWeek(aim + 2) = 2
      /\ D = 1 => DayOfWeek(aim - 1) = 7 /\ DayOfWeek(aim - 2) = 6 /\ DayOfWeek(aim + 1) = 2
  BY <1>3, DaysAround
<1> HIDE DEF near
<1>5. near \in Int /\ near \in 1..last /\ best = aim + (near - wanted)
  BY <1>1, <1>2, <1>3, <1>4
<1>6. \/ D \in 2..6 /\ near - wanted = 0
      \/ D = 7 /\ wanted = 1 /\ near - wanted = 2
      \/ D = 7 /\ near - wanted = -1
      \/ D = 1 /\ wanted = last /\ near - wanted = -2
      \/ D = 1 /\ near - wanted = 1
  BY <1>2, <1>3, <1>4
<1> DEFINE off == near - wanted
<1>7. off \in Int /\ best = aim + off /\ best \in Int /\ best \in first..b
  BY <1>1, <1>3, <1>5
<1>8. wanted = 1 => aim = first
  BY <1>1
<1>9. wanted = last => aim = b
  BY <1>1
<1> HIDE DEF D, aim, b, best, off
<1>10. IsWeekday(best)
  BY <1>3, <1>4, <1>6, <1>7 DEF IsWeekday, D, off
<1>11. ASSUME NEW w \in first..b, IsWeekday(w), w # best
       PROVE  Distance(best, aim) < Distance(w, aim)
  <2>1. w \in Int /\ w >= first /\ w <= b
    BY <1>3
  <2>2. CASE D \in 2..6
    BY <1>3, <1>6, <1>7, <1>11, <2>1, <2>2 DEF Distance, off
  <2>3. CASE D = 7
    <3>1. w # aim /\ w # aim + 1
      BY <1>4, <1>11, <2>3 DEF IsWeekday, D
    <3> QED
      BY <1>3, <1>6, <1>7, <1>8, <1>11, <2>1, <2>3, <3>1 DEF Distance, off
  <2>4. CASE D = 1
    <3>1. w # aim /\ w # aim - 1
      BY <1>4, <1>11, <2>4 DEF IsWeekday, D
    <3> QED
      BY <1>3, <1>6, <1>7, <1>9, <1>11, <2>1, <2>4, <3>1 DEF Distance, off
  <2> QED
    BY <1>4, <2>2, <2>3, <2>4
<1>12. ASSUME NEW j \in 1..last
       PROVE  IsNearestWeekday(first + j - 1, wanted) <=> j = near
  <2> DEFINE n == first + j - 1
  <2>1. n \in first..b
    BY <1>1 DEF b
  <2>2. DateOf[n] = [year |-> y, month |-> m, day |-> j]
    BY DateOfDay
  <2>3. IsNearestWeekday(n, wanted) <=>
          /\ aim \in first..b
          /\ IsWeekday(n)
          /\ \A w \in first..b : IsWeekday(w) => Distance(n, aim) <= Distance(w, aim)
    <3> HIDE DEF n
    <3> QED
      BY <2>2 DEF IsNearestWeekday, aim, b
  <2> HIDE DEF n
  <2>4. n = best <=>
          IsWeekday(n) /\ \A w \in first..b : IsWeekday(w) => Distance(n, aim) <= Distance(w, aim)
    <3> HIDE DEF first
    <3>1. NoneAsNear(first, b, aim, best)
      BY <1>11 DEF NoneAsNear
    <3>2. first \in Int /\ b \in Int /\ aim \in first..b /\ best \in first..b
      BY <1>3, <1>7
    <3> QED
      BY ONLY <1>10, <2>1, <3>1, <3>2, NearestIsOne
  <2>5. n = best <=> j = near
    BY <1>1, <1>5 DEF n, best
  <2> QED
    BY <1>3, <2>3, <2>4, <2>5 DEF n
<1> QED
  BY <1>5, <1>12 DEF near

\* The fields of the clock make the time of day.
LEMMA ClockSum ==
  ASSUME NEW t \in Int
  PROVE  t % SecondsPerDay = Hour(t) * SecondsPerHour + Minute(t) * SecondsPerMinute + Second(t)
<1> DEFINE u == SecondsPerMinute
           m == MinutesPerHour
           k == HoursPerDay
           q == t \div u
           h == t \div SecondsPerHour
           n == DayNumber(t)
           H == Hour(t)
           M == Minute(t)
           S == Second(t)
           T == t % SecondsPerDay
<1>1. u \in Int /\ m \in Int /\ k \in Int /\ SecondsPerHour = u * m /\ SecondsPerDay = (u * m) * k
  BY ClockUnits DEF SecondsPerHour, SecondsPerDay
<1>2. q \in Int /\ t = u * q + S
  BY ClockUnits, Divided DEF Second
<1>3. h \in Int /\ q = m * h + M
  <2>1. h = q \div m /\ M = q % m
    BY ClockFields
  <2>2. q \div m \in Int /\ q = m * (q \div m) + (q % m)
    BY <1>2, ClockUnits, Divided
  <2> QED
    BY <2>1, <2>2
<1>4. h = k * n + H
  <2>1. H = h % k /\ n = h \div k
    BY ClockFields
  <2>2. h = k * (h \div k) + (h % k)
    BY <1>3, ClockUnits, Divided
  <2> QED
    BY <2>1, <2>2
<1>5. t = SecondsPerDay * n + T /\ T \in Int
  <2>1. T \in 0..SecondsPerDay-1 /\ t = SecondsPerDay * n + T
    BY ClockFields
  <2> QED
    BY <2>1, ClockUnits
<1>6. n \in Int /\ H \in Int /\ M \in Int /\ S \in Int
  <2>1. /\ n \in Int /\ S \in 0..SecondsPerMinute-1
        /\ M \in 0..MinutesPerHour-1 /\ H \in 0..HoursPerDay-1
    BY ClockFields
  <2> QED
    BY <2>1, ClockUnits
<1> HIDE DEF u, m, k, q, h, n, H, M, S, T
<1>7. u * q = u * (m * h) + u * M
  BY <1>1, <1>3, <1>6
<1>8. u * (m * h) = (u * m) * (k * n + H)
  BY <1>1, <1>3, <1>4
<1>9. (u * m) * (k * n + H) = ((u * m) * k) * n + (u * m) * H
  BY <1>1, <1>6
<1>10. t = SecondsPerDay * n + H * SecondsPerHour + M * u + S
  <2> DEFINE a == SecondsPerDay * n
             b == (u * m) * H
             c == u * M
  <2>1. a \in Int /\ b \in Int /\ c \in Int /\ b = H * SecondsPerHour /\ c = M * u
    BY <1>1, <1>6
  <2>2. u * q = a + b + c
    BY <1>1, <1>7, <1>8, <1>9, <2>1
  <2> HIDE DEF a, b, c
  <2>3. t = a + b + c + S
    BY <1>2, <2>2
  <2> QED
    BY <2>1, <2>3 DEF a
<1>11. SecondsPerDay * n \in Int /\ H * SecondsPerHour \in Int /\ M * u \in Int
  BY <1>1, <1>6, ClockUnits
<1> QED
  BY <1>5, <1>6, <1>10, <1>11 DEF u, H, M, S, T

\* The rule of the day of the month, for aW and L-nW: there is one such day in a month, and
\* the rule sends the calendar there if that is after the given date at this time of day.
LEMMA WeekdayRule ==
  ASSUME WeekdayOfMonth, NEW t \in Nat, t < CalendarEnd
  PROVE  \E near \in 1..LastDayOfMonth(Month(t), Year(t)), k \in 1..28 :
           /\ \A j \in 1..LastDayOfMonth(Month(t), Year(t)) :
                DayMeant(AsCoded, MonthStart[Year(t)][Month(t)] + j - 1) <=> j = near
           /\ DayTarget(t) =
                IF (MonthStart[Year(t)][Month(t)] + near - 1) * SecondsPerDay
                     + (t % SecondsPerDay) >= after + 1
                THEN [day |-> near, month |-> Month(t)]
                ELSE [day |-> k, month |-> Month(t) + 1]
<1> DEFINE y == Year(t)
           m == Month(t)
           last == LastDayOfMonth(m, y)
           first == MonthStart[y][m]
           wanted == IF expr.lastdayOfMonth THEN last - expr.lastdayOffset
                     ELSE Min(expr.daysOfMonth)
           near == NearestWeekday(y, m, wanted)
           k == IF expr.lastdayOfMonth THEN 1 ELSE wanted
           nTime == Instant(y, m, near, Hour(t), Minute(t), Second(t))
<1>1. /\ y \in CalendarYears /\ m \in 1..12 /\ first \in Nat /\ last \in 28..31
      /\ \A j \in 1..last : /\ first + j - 1 \in CalendarDays
                            /\ DateOf[first + j - 1].year = y
                            /\ DateOf[first + j - 1].month = m
  BY MonthOf
<1>2. \/ expr.lastdayOfMonth /\ expr.lastdayOffset \in 0..27
      \/ ~expr.lastdayOfMonth /\ Min(expr.daysOfMonth) \in 1..28
  BY DEF WeekdayOfMonth
<1>3. wanted \in 1..last /\ k \in 1..28
  <2>1. CASE expr.lastdayOfMonth /\ expr.lastdayOffset \in 0..27
    BY <1>1, <2>1
  <2>2. CASE ~expr.lastdayOfMonth /\ Min(expr.daysOfMonth) \in 1..28
    BY <1>1, <2>2
  <2> QED
    BY <1>2, <2>1, <2>2
<1>4. DayTarget(t) = IF nTime >= after + 1 THEN [day |-> near, month |-> m]
                     ELSE [day |-> k, month |-> m + 1]
  BY DEF WeekdayOfMonth, DayTarget, DayOfMonthTarget
<1>5. ASSUME NEW j \in 1..last
      PROVE  DayMeant(AsCoded, first + j - 1) <=> IsNearestWeekday(first + j - 1, wanted)
  <2> DEFINE n == first + j - 1
  <2>1. n \in CalendarDays /\ DateOf[n].year = y /\ DateOf[n].month = m
    BY <1>1
  <2> HIDE DEF n, y, m
  <2>2. DayMeant(AsCoded, n) <=> IsNearestWeekday(n, wanted)
    BY <2>1 DEF WeekdayOfMonth
  <2> QED
    BY <2>2 DEF n
<1> HIDE DEF wanted, k, last, y, m
<1>6. near \in 1..last /\ \A j \in 1..last :
        IsNearestWeekday(first + j - 1, wanted) <=> j = near
  BY <1>1, <1>3, NearestWeekdayFound DEF last
<1>7. \A j \in 1..last : DayMeant(AsCoded, first + j - 1) <=> j = near
  BY <1>5, <1>6
<1> HIDE DEF near, first
<1>8. nTime = (first + near - 1) * SecondsPerDay + (t % SecondsPerDay)
  <2>1. Hour(t) * SecondsPerHour \in Int /\ Minute(t) * SecondsPerMinute \in Int /\ Second(t) \in Int
    <3>1. /\ Second(t) \in 0..SecondsPerMinute-1
          /\ Minute(t) \in 0..MinutesPerHour-1 /\ Hour(t) \in 0..HoursPerDay-1
      BY ClockFields
    <3>2. Second(t) \in Int /\ Minute(t) \in Int /\ Hour(t) \in Int
      BY <3>1, ClockUnits
    <3> QED
      BY <3>2, ClockUnits
  <2>2. (first + near - 1) * SecondsPerDay \in Int
    BY <1>1, <1>6, ClockUnits
  <2>3. t % SecondsPerDay = Hour(t) * SecondsPerHour + Minute(t) * SecondsPerMinute + Second(t)
    BY ClockSum
  <2>4. nTime = (first + near - 1) * SecondsPerDay
                  + Hour(t) * SecondsPerHour + Minute(t) * SecondsPerMinute + Second(t)
    BY DEF Instant, first
  <2> QED
    BY <2>1, <2>2, <2>3, <2>4
<1> HIDE DEF nTime
<1> QED
  BY <1>3, <1>4, <1>6, <1>7, <1>8 DEF first, last, y, m

-----------------------------------------------------------------------------
(* Where the search may stand *)

\* The day fields mean the day of x, and the time fields its time of day.
Timely(x) == x % SecondsPerDay \in TimesMeant(AsCoded) /\ DayMeant(AsCoded, DayNumber(x))

\* Reached, of instants instead of days and times of day
ReachedAt(c) ==
  /\ c \in Nat /\ c > after /\ c < CalendarEnd
  /\ \A x \in (after + 1)..(c - 1) : Timely(x) =>
       /\ DateMeant(AsCoded, DayNumber(x)) => SameMonth(x, c)
       /\ SameMonth(x, c) =>
            /\ expr.nearestWeekday
            /\ DayNumber(after) < DayNumber(x)
            /\ \A s \in TimesMeant(AsCoded) : c % SecondsPerDay <= s

\* The two say the same: an instant is one of a day and a time of day.
LEMMA ReachedByDays ==
  ASSUME after \in Nat, NEW c
  PROVE  Reached(c) <=> ReachedAt(c)
<1> DEFINE Left(n, x) ==
             /\ DateMeant(AsCoded, n) => SameMonth(x, c)
             /\ SameMonth(x, c) =>
                  /\ expr.nearestWeekday
                  /\ DayNumber(after) < n
                  /\ \A s \in TimesMeant(AsCoded) : c % SecondsPerDay <= s
<1> SUFFICES ASSUME c \in Nat
             PROVE  (\A n \in DayNumber(after)..DayNumber(c) : DayMeant(AsCoded, n) =>
                       \A t \in TimesMeant(AsCoded) :
                         n * SecondsPerDay + t > after /\ n * SecondsPerDay + t < c =>
                           Left(n, n * SecondsPerDay + t))
                    <=> (\A x \in (after + 1)..(c - 1) : Timely(x) => Left(DayNumber(x), x))
  BY DEF Reached, ReachedAt
<1> HIDE DEF Left
<1>0. DayNumber(after) \in Int /\ DayNumber(c) \in Int
  BY ClockFields
<1>1. ASSUME \A n \in DayNumber(after)..DayNumber(c) : DayMeant(AsCoded, n) =>
               \A t \in TimesMeant(AsCoded) :
                 n * SecondsPerDay + t > after /\ n * SecondsPerDay + t < c =>
                   Left(n, n * SecondsPerDay + t),
             NEW x \in (after + 1)..(c - 1), Timely(x)
      PROVE  Left(DayNumber(x), x)
  <2> DEFINE n == DayNumber(x)
             t == x % SecondsPerDay
  <2>1. x \in Int /\ after <= x /\ x <= c /\ x > after /\ x < c
    BY <1>1
  <2>2. n \in Int /\ DayNumber(after) <= n /\ n <= DayNumber(c)
    BY <2>1, ClockFields, DaysInOrder
  <2>3. x = n * SecondsPerDay + t
    <3>1. x = SecondsPerDay * n + t /\ n \in Int /\ t \in Int /\ SecondsPerDay \in Int
      BY <2>1, ClockFields, ClockUnits
    <3> QED
      BY <3>1
  <2>4. t \in TimesMeant(AsCoded) /\ DayMeant(AsCoded, n)
    BY <1>1 DEF Timely
  <2> HIDE DEF n, t
  <2>5. n \in DayNumber(after)..DayNumber(c)
    BY <1>0, <2>2
  <2>6. Left(n, x)
    BY <1>1, <2>1, <2>3, <2>4, <2>5
  <2> QED
    BY <2>6 DEF n
<1>2. ASSUME \A x \in (after + 1)..(c - 1) : Timely(x) => Left(DayNumber(x), x),
             NEW n \in DayNumber(after)..DayNumber(c), DayMeant(AsCoded, n),
             NEW t \in TimesMeant(AsCoded),
             n * SecondsPerDay + t > after, n * SecondsPerDay + t < c
      PROVE  Left(n, n * SecondsPerDay + t)
  <2> DEFINE x == n * SecondsPerDay + t
  <2>1. n \in Int
    BY <1>0
  <2>2. t \in 0..SecondsPerDay-1
    BY DEF TimesMeant
  <2>3. x \in Int /\ DayNumber(x) = n /\ x % SecondsPerDay = t
    BY <2>1, <2>2, DayAndTime
  <2>4. x > after /\ x < c
    BY <1>2
  <2>5. Timely(x)
    BY <1>2, <2>3 DEF Timely
  <2> HIDE DEF x
  <2>6. x \in (after + 1)..(c - 1)
    BY <2>3, <2>4
  <2>7. Left(n, x)
    BY <1>2, <2>3, <2>5, <2>6
  <2> QED
    BY <2>7 DEF x
<1> QED
  BY <1>1, <1>2

\* Later instants have later dates.
LEMMA InstantsInOrder ==
  ASSUME NEW x \in Nat, NEW z \in Nat, x <= z, z < CalendarEnd
  PROVE  /\ x < CalendarEnd
         /\ Year(x) <= Year(z)
         /\ Year(x) = Year(z) => Month(x) <= Month(z)
<1>1. x < CalendarEnd
  <2>1. CalendarEnd \in Nat
    BY InstantHasDay
  <2> QED
    BY <2>1
<1>2. DayNumber(x) \in CalendarDays /\ DayNumber(z) \in CalendarDays
  BY <1>1, InstantHasDay
<1>3. DayNumber(x) <= DayNumber(z)
  BY DaysInOrder
<1> QED
  BY <1>1, <1>2, <1>3, DatesInOrder DEF Year, Month

\* What lies between two instants of a month is of that month.
LEMMA SameMonthBetween ==
  ASSUME NEW x \in Nat, NEW b \in Nat, NEW z \in Nat, x <= b, b <= z, z < CalendarEnd,
         SameMonth(x, z)
  PROVE  SameMonth(b, z) /\ SameMonth(x, b)
<1>1. b < CalendarEnd /\ Year(b) <= Year(z) /\ (Year(b) = Year(z) => Month(b) <= Month(z))
  BY InstantsInOrder
<1>2. x < CalendarEnd /\ Year(x) <= Year(b) /\ (Year(x) = Year(b) => Month(x) <= Month(b))
  BY <1>1, InstantsInOrder
<1>3. ASSUME NEW i \in {x, b, z} PROVE Year(i) \in Int /\ Month(i) \in Int
  <2>1. i \in Nat /\ i < CalendarEnd
    BY <1>1, <1>2
  <2>2. Year(i) \in Int /\ Month(i) \in 1..12
    BY <2>1, InstantDated
  <2> QED
    BY <2>2
<1>4. /\ Year(x) \in Int /\ Year(b) \in Int /\ Year(z) \in Int
      /\ Month(x) \in Int /\ Month(b) \in Int /\ Month(z) \in Int
  BY <1>3
<1>5. Year(x) = Year(z) /\ Month(x) = Month(z)
  BY DEF SameMonth
<1>6. Year(b) = Year(z)
  BY <1>1, <1>2, <1>4, <1>5
<1>7. Month(b) = Month(z)
  BY <1>1, <1>2, <1>4, <1>5, <1>6
<1> QED
  BY <1>5, <1>6, <1>7 DEF SameMonth

\* Passing instants whose time of day is not meant
LEMMA TimeStep ==
  ASSUME after \in Nat, NEW c, ReachedAt(c), NEW u \in Nat, c <= u, u < CalendarEnd,
         \A x \in c..u-1 : x % SecondsPerDay \notin TimesMeant(AsCoded)
  PROVE  ReachedAt(u)
<1>1. c \in Nat /\ c > after /\ c < CalendarEnd
  BY DEF ReachedAt
<1> DEFINE D == DayNumber(c)
<1>2. D \in Int /\ c = SecondsPerDay * D + (c % SecondsPerDay) /\ c % SecondsPerDay \in 0..SecondsPerDay-1
  <2>1. c \in Int
    BY <1>1
  <2> QED
    BY <2>1, ClockFields
<1> HIDE DEF D
\* a time of day still to come on c's day keeps the calendar on that day
<1>3. ASSUME NEW s \in TimesMeant(AsCoded), c % SecondsPerDay <= s
      PROVE  DayNumber(u) = D /\ u % SecondsPerDay <= s
  <2> DEFINE z == D * SecondsPerDay + s
  <2>1. s \in 0..SecondsPerDay-1
    BY DEF TimesMeant
  <2>2. z \in Int /\ DayNumber(z) = D /\ z % SecondsPerDay = s
    BY <1>2, <2>1, DayAndTime
  <2>3. c <= z
    <3> DEFINE q == D * SecondsPerDay
               r == c % SecondsPerDay
    <3>1. q \in Int /\ c = q + r /\ r \in Int /\ s \in Int /\ r <= s
      <4>1. SecondsPerDay \in Int
        BY ClockUnits
      <4> QED
        BY <1>2, <1>3, <2>1, <4>1
    <3> HIDE DEF q, r
    <3>2. c <= q + s
      BY <1>1, <3>1
    <3> QED
      BY <3>2 DEF q
  <2> HIDE DEF z
  <2>4. z >= u
    BY <1>1, <2>2, <2>3
  <2>5. D <= DayNumber(u) /\ DayNumber(u) <= D
    BY <1>1, <2>2, <2>4, DaysInOrder DEF D
  <2>6. DayNumber(u) \in Int /\ u = SecondsPerDay * DayNumber(u) + (u % SecondsPerDay)
        /\ u % SecondsPerDay \in 0..SecondsPerDay-1
    BY ClockFields
  <2>7. DayNumber(u) = D
    BY <1>2, <2>5, <2>6
  <2>8. u % SecondsPerDay <= s
    <3> DEFINE q == D * SecondsPerDay
               r == u % SecondsPerDay
    <3>1. q \in Int /\ u = q + r /\ r \in Int /\ s \in Int /\ z = q + s
      <4>1. SecondsPerDay \in Int
        BY ClockUnits
      <4> QED
        BY <1>2, <2>1, <2>6, <2>7, <4>1 DEF z
    <3> HIDE DEF q, r
    <3>2. r <= s
      BY <2>4, <3>1
    <3> QED
      BY <3>2 DEF r
  <2> QED
    BY <2>7, <2>8
<1>4. ASSUME NEW x \in (after + 1)..(u - 1), Timely(x)
      PROVE  /\ DateMeant(AsCoded, DayNumber(x)) => SameMonth(x, u)
             /\ SameMonth(x, u) =>
                  /\ expr.nearestWeekday
                  /\ DayNumber(after) < DayNumber(x)
                  /\ \A s \in TimesMeant(AsCoded) : u % SecondsPerDay <= s
  <2>1. x % SecondsPerDay \in TimesMeant(AsCoded)
    BY <1>4 DEF Timely
  <2>2. x \in (after + 1)..(c - 1) /\ x \in Nat /\ x <= c
    <3>1. x \in Int /\ ~(x \in c..u-1)
      BY <2>1
    <3> QED
      BY <1>1, <3>1
  <2>3. /\ DateMeant(AsCoded, DayNumber(x)) => SameMonth(x, c)
        /\ SameMonth(x, c) =>
             /\ expr.nearestWeekday
             /\ DayNumber(after) < DayNumber(x)
             /\ \A s \in TimesMeant(AsCoded) : c % SecondsPerDay <= s
    BY <1>4, <2>2 DEF ReachedAt
  <2>4. SameMonth(x, c) => DayNumber(u) = D /\ \A s \in TimesMeant(AsCoded) : u % SecondsPerDay <= s
    BY <1>3, <2>1, <2>3
  <2>5. DayNumber(u) = D => (SameMonth(x, c) => SameMonth(x, u))
    BY DEF SameMonth, Year, Month, D
  <2>6. SameMonth(x, u) => SameMonth(x, c)
    BY <1>1, <2>2, SameMonthBetween
  <2> QED
    BY <2>3, <2>4, <2>5, <2>6
<1>5. u > after
  BY <1>1
<1> QED
  BY <1>4, <1>5 DEF ReachedAt

-----------------------------------------------------------------------------
(* The rules of months and years *)

\* The beginning of a day
LEMMA InstantOfDay ==
  ASSUME NEW y \in CalendarYears, NEW m \in 1..13, NEW d \in Int
  PROVE  Instant(y, m, d, 0, 0, 0) = (MonthStart[y][m] + d - 1) * SecondsPerDay
<1>1. MonthStart[y][m] \in Nat
  BY StartIsNumber
<1>2. (MonthStart[y][m] + d - 1) * SecondsPerDay \in Int
  BY <1>1, ClockUnits
<1>3. 0 * SecondsPerHour = 0 /\ 0 * SecondsPerMinute = 0
  BY ClockUnits
<1> QED
  BY <1>2, <1>3 DEF Instant

\* The beginning of a month: all that is earlier belongs to other months.
LEMMA MonthBegins ==
  ASSUME NEW y \in CalendarYears, NEW m \in 1..12, NEW c,
         c = MonthStart[y][m] * SecondsPerDay
  PROVE  /\ c \in Nat /\ c < CalendarEnd
         /\ DayNumber(c) = MonthStart[y][m]
         /\ Year(c) = y /\ Month(c) = m
         /\ \A x \in Nat : x < c => ~SameMonth(x, c)
<1> DEFINE first == MonthStart[y][m]
<1>1. first \in Nat /\ LastDayOfMonth(m, y) \in 28..31
  BY MonthStarts
<1>2. c \in Nat
  BY <1>1, ClockUnits
<1>3. DayNumber(c) = first
  BY <1>1, DayBegins
<1>4. first \in CalendarDays /\ DateOf[first].year = y /\ DateOf[first].month = m
  <2>1. first \in Int /\ first >= MonthStart[y][m] /\ first < MonthStart[y][m] + LastDayOfMonth(m, y)
    BY <1>1
  <2> HIDE DEF first
  <2> QED
    BY <2>1, DaysOfMonth
<1>5. c < CalendarEnd
  BY <1>2, <1>3, <1>4, InstantHasDay
<1>6. Year(c) = y /\ Month(c) = m
  BY <1>3, <1>4 DEF Year, Month
<1>7. ASSUME NEW x \in Nat, x < c PROVE ~SameMonth(x, c)
  <2> SUFFICES ASSUME Year(x) = y, Month(x) = m PROVE FALSE
    BY <1>6 DEF SameMonth
  <2>1. x < CalendarEnd
    BY <1>2, <1>5, <1>7, InstantsInOrder
  <2>2. DayNumber(x) = first + Day(x) - 1 /\ Day(x) \in 1..LastDayOfMonth(m, y) /\ DayNumber(x) \in Int
    BY <2>1, InstantDated
  <2>3. DayNumber(x) < first
    BY <1>1, <1>7, DayBelow
  <2> QED
    BY <1>1, <2>2, <2>3
<1> QED
  BY <1>2, <1>3, <1>5, <1>6, <1>7

\* Going on to the beginning of a later month, with nothing between that is meant
LEMMA MonthStep ==
  ASSUME after \in Nat, NEW t, ReachedAt(t), NEW y \in CalendarYears, NEW m \in 1..12, NEW c,
         c = MonthStart[y][m] * SecondsPerDay, DayNumber(t) < MonthStart[y][m],
         \A x \in Nat : SameMonth(x, t) => ~DateMeant(AsCoded, DayNumber(x)),
         \A x \in t..c-1 : ~SameMonth(x, t) => ~DateMeant(AsCoded, DayNumber(x))
  PROVE  ReachedAt(c)
<1>1. t \in Nat /\ t > after /\ t < CalendarEnd
  BY DEF ReachedAt
<1>2. /\ c \in Nat /\ c < CalendarEnd
      /\ \A x \in Nat : x < c => ~SameMonth(x, c)
  BY MonthBegins
<1>3. t < c
  <2>1. MonthStart[y][m] \in Int /\ t \in Int
    BY <1>1, MonthStarts
  <2> QED
    BY <2>1, DayBelow
<1>4. ASSUME NEW x \in (after + 1)..(c - 1), Timely(x)
      PROVE  ~DateMeant(AsCoded, DayNumber(x)) /\ ~SameMonth(x, c)
  <2>1. x \in Nat /\ x < c
    BY <1>2
  <2>2. CASE x < t
    <3>1. x \in (after + 1)..(t - 1)
      BY <1>1, <1>2, <2>2
    <3>2. DateMeant(AsCoded, DayNumber(x)) => SameMonth(x, t)
      BY <1>4, <3>1 DEF ReachedAt
    <3> QED
      BY <1>2, <2>1, <3>2
  <2>3. CASE x >= t
    <3>1. x \in t..c-1
      BY <1>1, <1>2, <2>1, <2>3
    <3> QED
      BY <1>2, <2>1, <3>1
  <2> QED
    BY <1>1, <2>1, <2>2, <2>3
<1>5. c > after
  BY <1>1, <1>2, <1>3
<1> QED
  BY <1>2, <1>4, <1>5 DEF ReachedAt

\* What the object's sets do not have is not meant.
LEMMA NotMeant ==
  ASSUME Ready, NEW x \in Nat, x < CalendarEnd, DateMeant(AsCoded, DayNumber(x))
  PROVE  /\ Year(x) <= MaxYear /\ Year(x) \in expr.years
         /\ Month(x) \in expr.months
         /\ DayMeant(AsCoded, DayNumber(x))
<1>1. DayNumber(x) \in CalendarDays
  BY InstantHasDay
<1> QED
  BY <1>1, DateIsMeant DEF Year, Month

\* The rule of months
LEMMA MonthSkips ==
  ASSUME after \in Nat, Ready, NEW t, ReachedAt(t), Month(t) \notin expr.months, Year(t) < LastYear
  PROVE  ReachedAt(Instant(Year(t) + Carry(expr.months, Month(t)),
                         Following(expr.months, Month(t)), 1, 0, 0, 0))
<1> DEFINE y == Year(t)
           m == Month(t)
           f == Following(expr.months, m)
           k == Carry(expr.months, m)
           c == Instant(y + k, f, 1, 0, 0, 0)
<1>1. t \in Nat /\ t < CalendarEnd
  BY DEF ReachedAt
<1>2. /\ y \in CalendarYears /\ y \in Int /\ y >= FirstYear /\ m \in 1..12 /\ m \in Int
      /\ DayNumber(t) < MonthStart[y][m] + LastDayOfMonth(m, y) /\ DayNumber(t) \in Int
      /\ y + 1 \in CalendarYears
  <2>1. /\ y \in CalendarYears /\ y \in Int /\ y >= FirstYear /\ m \in 1..12
        /\ DayNumber(t) = MonthStart[y][m] + Day(t) - 1 /\ DayNumber(t) \in Int
        /\ Day(t) \in 1..LastDayOfMonth(m, y) /\ LastDayOfMonth(m, y) \in 28..31
        /\ MonthStart[y][m] \in Nat
    BY <1>1, InstantDated
  <2>2. y + 1 \in CalendarYears
    BY <2>1, CalendarAssumption DEF CalendarYears
  <2> QED
    BY <2>1, <2>2
<1> HIDE DEF y, m
<1>3. /\ f \in expr.months /\ f \in 1..12
      /\ \/ k = 0 /\ f >= m /\ \A s \in expr.months : s >= m => s >= f
         \/ k = 1 /\ \A s \in expr.months : s < m /\ s >= f
      /\ ~(f = m /\ k = 0)
  <2>1. Shaped(expr.months, 1, 12) /\ m \notin expr.months
    BY SetsShaped DEF m
  <2> DEFINE S == expr.months
  <2> HIDE DEF S
  <2>2. 1 \in Nat /\ 12 \in Nat /\ Shaped(S, 1, 12) /\ m \in 1..12
    BY <1>2, <2>1 DEF S
  <2>3. /\ Following(S, m) \in S /\ Following(S, m) \in 1..12
        /\ m \in S <=> Following(S, m) = m /\ Carry(S, m) = 0
    BY ONLY <2>2, FollowingValue
  <2>4. \/ Carry(S, m) = 0 /\ Following(S, m) >= m /\ \A s \in S : s >= m => s >= Following(S, m)
        \/ Carry(S, m) = 1 /\ \A s \in S : s < m /\ s >= Following(S, m)
    BY ONLY <2>2, FollowingValue
  <2> QED
    BY <2>1, <2>3, <2>4 DEF S
<1> HIDE DEF f, k
<1>4. y + k \in CalendarYears /\ f \in 1..13
  BY <1>2, <1>3
<1>5. DayNumber(t) < MonthStart[y + k][f]
  <2>1. CASE k = 0
    <3>1. m < f /\ y + k = y
      BY <1>2, <1>3, <2>1
    <3>2. MonthStart[y][m] + LastDayOfMonth(m, y) <= MonthStart[y][f]
      BY <1>2, <1>4, <3>1, MonthStarts
    <3>3. MonthStart[y][m] \in Int /\ LastDayOfMonth(m, y) \in 28..31 /\ MonthStart[y][f] \in Int
      BY <1>2, <1>4, MonthStarts, StartIsNumber
    <3> QED
      BY <1>2, <3>1, <3>2, <3>3
  <2>2. CASE k = 1
    <3> DEFINE z == y + 1
    <3>1. z \in CalendarYears
      BY <1>2
    <3>2. MonthStart[z][1] = MonthStart[y][13] /\ MonthStart[y][13] \in Nat
          /\ MonthStart[y][m] \in Nat /\ LastDayOfMonth(m, y) \in 28..31
      BY <1>2, MonthStarts
    <3>3. MonthStart[y][m] + LastDayOfMonth(m, y) <= MonthStart[y][13]
      BY <1>2, MonthStarts
    <3> HIDE DEF z
    <3>4. MonthStart[z][1] <= MonthStart[z][f]
      <4>1. CASE f = 1
        BY <3>1, <3>2, <4>1
      <4>2. CASE f # 1
        <5> DEFINE a == 1
        <5>1. a \in 1..12 /\ a < f
          BY <1>3, <4>2
        <5> HIDE DEF a
        <5>2. MonthStart[z][a] + LastDayOfMonth(a, z) <= MonthStart[z][f]
              /\ LastDayOfMonth(a, z) \in 28..31 /\ MonthStart[z][a] \in Nat
          BY <1>4, <3>1, <5>1, MonthStarts
        <5>3. MonthStart[z][f] \in Nat
          BY <1>4, <3>1, StartIsNumber
        <5>4. MonthStart[z][a] <= MonthStart[z][f]
          BY <5>2, <5>3
        <5> QED
          BY <5>4 DEF a
      <4> QED
        BY <4>1, <4>2
    <3>5. MonthStart[z][f] \in Nat
      BY <1>4, <3>1, StartIsNumber
    <3>6. DayNumber(t) < MonthStart[z][f]
      BY <1>2, <3>2, <3>3, <3>4, <3>5
    <3> QED
      BY <2>2, <3>6 DEF z
  <2> QED
    BY <1>3, <2>1, <2>2
<1>6. c = MonthStart[y + k][f] * SecondsPerDay
  <2> DEFINE z == y + k
  <2>1. 1 \in Int /\ z \in CalendarYears
    BY <1>4
  <2> HIDE DEF z
  <2>2. Instant(z, f, 1, 0, 0, 0) = (MonthStart[z][f] + 1 - 1) * SecondsPerDay
    BY <1>4, <2>1, InstantOfDay
  <2>3. MonthStart[z][f] + 1 - 1 = MonthStart[z][f]
    BY <1>4, <2>1, StartIsNumber
  <2> QED
    BY <2>2, <2>3 DEF z
<1>7. /\ c \in Nat /\ c < CalendarEnd /\ Year(c) = y + k /\ Month(c) = f
      /\ \A x \in Nat : x < c => ~SameMonth(x, c)
  <2> DEFINE z == y + k
  <2>1. z \in CalendarYears /\ c = MonthStart[z][f] * SecondsPerDay
    BY <1>4, <1>6
  <2> HIDE DEF z, c
  <2>2. /\ c \in Nat /\ c < CalendarEnd /\ Year(c) = z /\ Month(c) = f
        /\ \A x \in Nat : x < c => ~SameMonth(x, c)
    BY <1>3, <2>1, MonthBegins
  <2> QED
    BY <2>2 DEF z
<1> HIDE DEF c
<1>8. ASSUME NEW x \in Nat, SameMonth(x, t) PROVE ~DateMeant(AsCoded, DayNumber(x))
  <2> SUFFICES ASSUME DateMeant(AsCoded, DayNumber(x)) PROVE FALSE
    OBVIOUS
  <2>1. DateOf[DayNumber(x)].month \notin expr.months
    BY <1>8 DEF SameMonth, Month
  <2>2. FieldMeans("month", text.month, Month(t))
    BY <1>8, OtherFields DEF DateMeant, SameMonth, Month, Ready
  <2>3. Month(t) \in Low("month")..High("month") /\ "month" \in CycleFields
    BY <1>2 DEF m, Low, High, CycleFields, Fields
  <2>4. /\ DOMAIN text["month"] # {}
        /\ \A i \in DOMAIN text["month"] : IsNumbers("month", text["month"][i])
    BY HasNumbers DEF Ready
  <2>5. Month(t) \in FieldSet("month")
    BY <2>2, <2>3, <2>4, NumbersMean DEF Ready
  <2> QED
    BY <2>5, TheSets
<1>9. ASSUME NEW x \in t..c-1 PROVE ~DateMeant(AsCoded, DayNumber(x))
  <2> SUFFICES ASSUME DateMeant(AsCoded, DayNumber(x)) PROVE FALSE
    OBVIOUS
  <2>1. x \in Nat /\ t <= x /\ x < c /\ x <= c
    BY <1>1, <1>7
  <2>2. x < CalendarEnd /\ Year(x) <= y + k /\ (Year(x) = y + k => Month(x) <= f)
    BY <1>7, <2>1, InstantsInOrder
  <2>3. y <= Year(x) /\ (Year(x) = y => m <= Month(x))
    BY <1>1, <2>1, <2>2, InstantsInOrder DEF y, m
  <2>4. Month(x) \in expr.months
    BY <2>1, <2>2, NotMeant
  <2>5. ~(Year(x) = y + k /\ Month(x) = f)
    BY <1>7, <2>1 DEF SameMonth
  <2>6. Year(x) \in Int /\ Month(x) \in 1..12
    BY <2>1, <2>2, InstantDated
  <2>7. Month(x) \in Int /\ f \in Int
    BY <1>3, <2>6
  <2>8. CASE k = 0 /\ \A s \in expr.months : s >= m => s >= f
    <3>1. Year(x) = y /\ y + k = y
      BY <1>2, <2>2, <2>3, <2>6, <2>8
    <3>2. Month(x) >= m /\ Month(x) <= f /\ Month(x) # f
      BY <1>2, <2>2, <2>3, <2>5, <2>7, <3>1
    <3>3. Month(x) >= f
      BY <2>4, <2>8, <3>2
    <3> QED
      BY <2>7, <3>2, <3>3
  <2>9. CASE k = 1 /\ \A s \in expr.months : s < m /\ s >= f
    <3>1. Month(x) < m /\ Month(x) >= f
      BY <2>4, <2>9
    <3>2. Year(x) # y
      BY <1>2, <2>3, <2>7, <3>1
    <3>3. Year(x) = y + k
      BY <1>2, <2>2, <2>3, <2>6, <2>9, <3>2
    <3> QED
      BY <2>2, <2>5, <2>7, <3>1, <3>3
  <2> QED
    BY <1>3, <2>8, <2>9
<1>10. ReachedAt(c)
  <2> DEFINE z == y + k
  <2>1. z \in CalendarYears /\ c = MonthStart[z][f] * SecondsPerDay /\ DayNumber(t) < MonthStart[z][f]
    BY <1>4, <1>5, <1>6
  <2> HIDE DEF z
  <2> QED
    BY <1>3, <1>8, <1>9, <2>1, MonthStep
<1> QED
  BY <1>10 DEF c, y, m, f, k

\* The rule of years
LEMMA YearSkips ==
  ASSUME after \in Nat, Ready, NEW t, ReachedAt(t), Year(t) <= MaxYear,
         Year(t) \notin expr.years, ~Wraps(expr.years, Year(t))
  PROVE  ReachedAt(Instant(Following(expr.years, Year(t)), 1, 1, 0, 0, 0))
<1> DEFINE y == Year(t)
           f == Following(expr.years, y)
           one == 1
           c == Instant(f, one, 1, 0, 0, 0)
<1>1. t \in Nat /\ t < CalendarEnd
  BY DEF ReachedAt
<1>2. /\ y \in CalendarYears /\ y \in Int /\ y >= FirstYear
      /\ DayNumber(t) < MonthStart[y][13] /\ MonthStart[y][13] \in Nat /\ DayNumber(t) \in Int
  <2>1. /\ y \in CalendarYears /\ y \in Int /\ y >= FirstYear /\ Month(t) \in 1..12
        /\ DayNumber(t) = MonthStart[y][Month(t)] + Day(t) - 1 /\ DayNumber(t) \in Int
        /\ Day(t) \in 1..LastDayOfMonth(Month(t), y) /\ LastDayOfMonth(Month(t), y) \in 28..31
        /\ MonthStart[y][Month(t)] \in Nat
    BY <1>1, InstantDated
  <2> HIDE DEF y
  <2>2. /\ MonthStart[y][Month(t)] + LastDayOfMonth(Month(t), y) <= MonthStart[y][13]
        /\ MonthStart[y][13] \in Nat
    BY <2>1, MonthStarts
  <2> QED
    BY <2>1, <2>2
<1>3. /\ f \in expr.years /\ f \in 1970..MaxYear /\ f > y
      /\ \A s \in expr.years : s >= y => s >= f
  <2>1. Shaped(expr.years, 1970, MaxYear) /\ y \notin expr.years /\ Carry(expr.years, y) = 0
    BY SetsShaped DEF Carry
  <2>2. /\ 1970 \in Nat /\ MaxYear \in Nat /\ y \in 1970..MaxYear
    <3>1. MaxYear \in Nat
      BY MeaningAssumption, CalendarAssumption
    <3>2. FirstYear >= 1970 /\ FirstYear \in Int
      BY CronAssumption, CalendarAssumption DEF Low
    <3> QED
      BY <1>2, <3>1, <3>2
  <2> HIDE DEF y
  <2>3. /\ f \in expr.years /\ f \in 1970..MaxYear /\ f >= y
        /\ \A s \in expr.years : s >= y => s >= f
        /\ ~(f = y)
    BY <2>1, <2>2, FollowingValue
  <2>4. f \in Int /\ y \in Int
    BY <2>2, <2>3
  <2> HIDE DEF f
  <2> QED
    BY <2>3, <2>4
<1> HIDE DEF f, y, one
<1>4. f \in CalendarYears /\ f \in Int
  BY <1>2, <1>3, MeaningAssumption, CalendarAssumption DEF CalendarYears
<1>5. one \in 1..12 /\ one \in 1..13
  BY DEF one
<1>6. DayNumber(t) < MonthStart[f][one]
  <2>1. MonthStart[y][13] <= MonthStart[f][1]
    <3>1. one \in 1..12 /\ y < f
      BY <1>2, <1>3, <1>4, <1>5
    <3> QED
      BY <1>2, <1>4, <3>1, MonthStarts
  <2>2. MonthStart[f][one] \in Nat
    BY <1>4, <1>5, MonthStarts
  <2> QED
    BY <1>2, <2>1, <2>2 DEF one
<1>7. c = MonthStart[f][one] * SecondsPerDay
  <2>1. 1 \in Int
    OBVIOUS
  <2>2. Instant(f, one, 1, 0, 0, 0) = (MonthStart[f][one] + 1 - 1) * SecondsPerDay
    BY <1>4, <1>5, <2>1, InstantOfDay
  <2>3. MonthStart[f][one] + 1 - 1 = MonthStart[f][one]
    BY <1>4, <1>5, StartIsNumber
  <2> QED
    BY <2>2, <2>3
<1> HIDE DEF c
<1>8. /\ c \in Nat /\ c < CalendarEnd /\ Year(c) = f /\ Month(c) = one
      /\ \A x \in Nat : x < c => ~SameMonth(x, c)
  BY <1>4, <1>5, <1>7, MonthBegins
<1>9. ASSUME NEW x \in Nat, x < CalendarEnd, DateMeant(AsCoded, DayNumber(x)), Year(x) >= y
      PROVE  Year(x) >= f
  BY <1>3, <1>9, NotMeant
<1>10. ASSUME NEW x \in Nat, SameMonth(x, t) PROVE ~DateMeant(AsCoded, DayNumber(x))
  <2>1. Year(x) = y
    BY <1>10 DEF SameMonth, y
  <2>2. DateMeant(AsCoded, DayNumber(x)) =>
          /\ y <= MaxYear
          /\ text.year = << >> \/ FieldMeans("year", text.year, y)
    BY <2>1, OtherFields DEF DateMeant, Year, Ready
  <2>3. y \in Low("year")..High("year")
    BY <1>2, <1>3, CronAssumption, CalendarAssumption, MeaningAssumption DEF Low, High, y
  <2>4. y \in FieldSet("year") <=> text.year = << >> \/ FieldMeans("year", text.year, y)
    BY <2>3, YearsMean DEF Ready
  <2> QED
    BY <2>2, <2>4, TheSets DEF y
<1>11. ASSUME NEW x \in t..c-1 PROVE ~DateMeant(AsCoded, DayNumber(x))
  <2> SUFFICES ASSUME DateMeant(AsCoded, DayNumber(x)) PROVE FALSE
    OBVIOUS
  <2>1. x \in Nat /\ t <= x /\ x < c /\ x <= c
    BY <1>1, <1>8
  <2>2. x < CalendarEnd /\ Year(x) <= f /\ (Year(x) = f => Month(x) <= one)
    BY <1>8, <2>1, InstantsInOrder
  <2>3. y <= Year(x)
    BY <1>1, <2>1, <2>2, InstantsInOrder DEF y
  <2>4. Year(x) \in Int /\ Month(x) \in 1..12
    BY <2>1, <2>2, InstantDated
  <2>5. Year(x) >= f
    BY <1>2, <1>9, <2>1, <2>2, <2>3, <2>4
  <2>6. Year(x) = f
    BY <1>4, <2>2, <2>4, <2>5
  <2>7. Month(x) = one
    BY <2>2, <2>4, <2>6 DEF one
  <2> QED
    BY <1>8, <2>1, <2>6, <2>7 DEF SameMonth
<1>12. ReachedAt(c)
  BY <1>4, <1>5, <1>6, <1>7, <1>10, <1>11, MonthStep
<1> QED
  BY <1>12 DEF c, one, f, y

-----------------------------------------------------------------------------
(* What the rules of days do to the search *)

\* Where the rule of days sends the calendar
DayStart(t) == Instant(Year(t), DayTarget(t).month, DayTarget(t).day, 0, 0, 0)

\* It is the beginning of the day the rule names.
LEMMA DayStartOf ==
  ASSUME NEW t, TargetDay(t) \in Int
  PROVE  /\ DayStart(t) = TargetDay(t) * SecondsPerDay
         /\ DayStart(t) \in Int
         /\ DayNumber(DayStart(t)) = TargetDay(t)
         /\ DayStart(t) % SecondsPerDay = 0
<1>1. TargetDay(t) * SecondsPerDay \in Int /\ 0 * SecondsPerHour = 0 /\ 0 * SecondsPerMinute = 0
  BY ClockUnits
<1>2. DayStart(t) = TargetDay(t) * SecondsPerDay
  BY <1>1 DEF DayStart, Instant, TargetDay
<1> QED
  BY <1>1, <1>2, DayBegins

\* Every rule but that for weekdays goes on to the next day that is meant, if the month
\* has one, and else into the next month.
LEMMA RulesKeepDays ==
  ASSUME Ready, NEW t \in Nat, t < CalendarEnd, Year(t) < LastYear
  PROVE  WeekdayOfMonth \/ (~expr.nearestWeekday /\ KeepsDays(t))
<1>1. NumbersOfMonth \/ LastOfMonth \/ WeekdayOfMonth \/ NumbersOfWeek \/ LastOfWeek \/ NthOfWeek
  BY FormsOfMonth, FormsOfWeek
<1>2. CASE NumbersOfMonth
  BY <1>2, NumbersOfMonthKeep DEF NumbersOfMonth
<1>3. CASE LastOfMonth
  BY <1>3, LastOfMonthKeep DEF LastOfMonth
<1>4. CASE NumbersOfWeek
  BY <1>4, NumbersOfWeekKeep DEF NumbersOfWeek
<1>5. CASE LastOfWeek
  BY <1>5, LastOfWeekKeep DEF LastOfWeek
<1>6. CASE NthOfWeek
  BY <1>6, NthOfWeekKeep DEF NthOfWeek
<1> QED
  BY <1>1, <1>2, <1>3, <1>4, <1>5, <1>6

\* A rule that passes no day that is meant keeps the search where it may stand.
LEMMA DayStep ==
  ASSUME after \in Nat, ~expr.nearestWeekday, NEW t, ReachedAt(t), Year(t) < LastYear,
         KeepsDays(t), DayTarget(t) # Here(t)
  PROVE  ReachedAt(DayStart(t))
<1> DEFINE N == TargetDay(t)
           c == DayStart(t)
<1>1. t \in Nat /\ t > after /\ t < CalendarEnd
  BY DEF ReachedAt
<1>2. /\ N \in Nat /\ N <= MonthStart[Year(t)][13] + 30
      /\ DayNumber(t) < N
      /\ \A p \in DayNumber(t)..N-1 : ~DayMeant(AsCoded, p)
  BY DEF KeepsDays
<1>3. c = N * SecondsPerDay /\ DayNumber(c) = N /\ c \in Int
  BY <1>2, DayStartOf
<1> HIDE DEF N, c
<1>4. N \in CalendarDays
  <2> DEFINE y == Year(t)
             z == y + 1
             one == 1
             d == 31
  <2>1. y \in CalendarYears /\ z \in CalendarYears /\ Month(t) \in 1..12
    <3>1. y \in CalendarYears /\ y \in Int /\ y >= FirstYear /\ Month(t) \in 1..12
      BY <1>1, InstantDated
    <3> QED
      BY <3>1, CalendarAssumption DEF CalendarYears
  <2> HIDE DEF y
  <2>2. MonthStart[z][one] = MonthStart[y][13] /\ MonthStart[y][13] \in Nat
    BY <2>1, MonthStarts
  <2>3. one \in 1..12 /\ d \in 1..LastDayOfMonth(one, z)
    BY DEF LastDayOfMonth
  <2> HIDE DEF z, one, d
  <2>4. MonthStart[z][one] + d - 1 \in CalendarDays
    BY <2>1, <2>3, DateOfDay
  <2>5. N <= MonthStart[z][one] + d - 1
    BY <1>2, <2>2 DEF d, y
  <2>6. MonthStart[LastYear][13] \in Nat
    <3>1. LastYear \in CalendarYears
      BY CalendarAssumption DEF CalendarYears
    <3> QED
      BY <3>1, StartIsNumber
  <2> QED
    BY <1>2, <2>4, <2>5, <2>6 DEF CalendarDays
<1>5. c \in Nat /\ t < c /\ c < CalendarEnd
  <2>1. t < c
    BY <1>1, <1>2, <1>3, DayBelow
  <2>2. c \in Nat
    BY <1>1, <1>3, <2>1
  <2> QED
    BY <1>3, <1>4, <2>1, <2>2, InstantHasDay
<1>6. ASSUME NEW x \in (after + 1)..(c - 1), Timely(x)
      PROVE  ~DateMeant(AsCoded, DayNumber(x)) /\ ~SameMonth(x, c)
  <2>1. x \in Nat /\ x \in Int /\ x < c
    BY <1>5
  <2>2. CASE x < t
    <3>1. x \in (after + 1)..(t - 1) /\ x <= t /\ t <= c
      BY <1>1, <1>5, <2>1, <2>2
    <3>2. ~SameMonth(x, t) /\ ~DateMeant(AsCoded, DayNumber(x))
      BY <1>6, <3>1 DEF ReachedAt
    <3> QED
      BY <1>1, <1>5, <2>1, <3>1, <3>2, SameMonthBetween
  <2>3. CASE x >= t
    <3>1. DayNumber(t) <= DayNumber(x) /\ DayNumber(x) < N /\ DayNumber(x) \in Int /\ DayNumber(t) \in Int
      <4>1. DayNumber(t) <= DayNumber(x)
        BY <1>1, <2>1, <2>3, DaysInOrder
      <4>2. DayNumber(x) < N
        BY <1>2, <1>3, <2>1, DayBelow
      <4> QED
        BY <1>1, <2>1, <4>1, <4>2, ClockFields
    <3>2. DayNumber(x) \in DayNumber(t)..N-1
      BY <1>2, <3>1
    <3> QED
      BY <1>2, <1>6, <3>2 DEF Timely
  <2> QED
    BY <1>1, <2>1, <2>2, <2>3
<1>7. c > after
  BY <1>1, <1>5
<1> QED
  BY <1>5, <1>6, <1>7 DEF ReachedAt, c

\* The month that follows another: it begins when that one ends.
LEMMA FollowingMonth ==
  ASSUME NEW y \in CalendarYears, y < LastYear, NEW m \in 1..12
  PROVE  \E z \in CalendarYears, q \in 1..12 :
           /\ MonthStart[z][q] = MonthStart[y][m + 1]
           /\ LastDayOfMonth(q, z) \in 28..31
           /\ ~(z = y /\ q = m)
<1>1. CASE m < 12
  <2> DEFINE q == m + 1
  <2>1. q \in 1..12 /\ q # m
    BY <1>1
  <2> HIDE DEF q
  <2>2. LastDayOfMonth(q, y) \in 28..31
    BY <2>1, MonthStarts
  <2> QED
    BY <2>1, <2>2 DEF q
<1>2. CASE m = 12
  <2> DEFINE z == y + 1
  <2>1. z \in CalendarYears /\ z # y
    <3>1. y \in Int /\ y >= FirstYear /\ MonthStart[y][m] \in Nat
      BY ONLY y \in CalendarYears, m \in 1..12, MonthStarts
    <3> QED
      BY <3>1, CalendarAssumption DEF CalendarYears
  <2>2. MonthStart[z][1] = MonthStart[y][13]
    BY <2>1, MonthStarts
  <2> HIDE DEF z
  <2>3. LastDayOfMonth(1, z) \in 28..31 /\ 1 \in 1..12 /\ m + 1 = 13
    BY <1>2 DEF LastDayOfMonth
  <2> QED
    BY <2>1, <2>2, <2>3
<1> QED
  BY <1>1, <1>2

\* The rule for weekdays aims at the one weekday of the month: if that is after the given
\* date the calendar goes to it, forward or back, else into the next month.
LEMMA WeekdayStep ==
  ASSUME after \in Nat, WeekdayOfMonth, NEW t, ReachedAt(t), Year(t) < LastYear,
         t % SecondsPerDay \in TimesMeant(AsCoded), DayTarget(t) # Here(t)
  PROVE  ReachedAt(DayStart(t))
<1> DEFINE y == Year(t)
           m == Month(t)
           first == MonthStart[y][m]
           last == LastDayOfMonth(m, y)
           n == DayNumber(t)
           T == t % SecondsPerDay
           c == DayStart(t)
<1>1. t \in Nat /\ t > after /\ t < CalendarEnd
  BY DEF ReachedAt
<1>2. /\ y \in CalendarYears /\ m \in 1..12 /\ first \in Nat /\ last \in 28..31
      /\ Day(t) \in 1..last /\ n = first + Day(t) - 1 /\ y < LastYear
  BY <1>1, InstantDated
<1>3. PICK near \in 1..last, k \in 1..28 :
        /\ \A j \in 1..last : DayMeant(AsCoded, first + j - 1) <=> j = near
        /\ DayTarget(t) = IF (first + near - 1) * SecondsPerDay + T >= after + 1
                          THEN [day |-> near, month |-> m] ELSE [day |-> k, month |-> m + 1]
  BY <1>1, WeekdayRule
<1> DEFINE N == first + near - 1
           nTime == N * SecondsPerDay + T
<1>4. /\ T \in 0..SecondsPerDay-1 /\ T \in Int /\ n \in Int
      /\ t = SecondsPerDay * n + T
  <2>1. T \in 0..SecondsPerDay-1 /\ n \in Int /\ t = SecondsPerDay * n + T
    BY <1>1, ClockFields
  <2> QED
    BY <2>1, ClockUnits
<1>5. N \in Int /\ N \in CalendarDays /\ DateOf[N].year = y /\ DateOf[N].month = m
      /\ DayMeant(AsCoded, N)
  <2>1. N \in CalendarDays /\ DateOf[N].year = y /\ DateOf[N].month = m
    BY <1>1, <1>3, MonthOf
  <2>2. DayMeant(AsCoded, N)
    BY <1>3
  <2> QED
    BY <1>2, <1>3, <2>1, <2>2
<1>6. nTime \in Int /\ DayNumber(nTime) = N /\ nTime % SecondsPerDay = T
  <2> HIDE DEF N, T
  <2> QED
    BY <1>4, <1>5, DayAndTime
<1> HIDE DEF y, m, first, last, n, T, N, nTime, c
\* of the days of the month only N is meant
<1>7. ASSUME NEW x \in Nat, SameMonth(x, t), x < CalendarEnd, Timely(x)
      PROVE  DayNumber(x) = N
  <2>1. Day(x) \in 1..last /\ DayNumber(x) = first + Day(x) - 1
    BY <1>7, InstantDated DEF SameMonth, first, last, y, m
  <2>2. DayMeant(AsCoded, first + Day(x) - 1)
    BY <1>7, <2>1 DEF Timely
  <2> QED
    BY <1>3, <2>1, <2>2 DEF N
<1>8. CASE nTime >= after + 1
  <2>1. DayTarget(t) = [day |-> near, month |-> m]
    BY <1>3, <1>8 DEF nTime, N
  <2>2. near # Day(t)
    BY <2>1 DEF Here, m
  <2>3. TargetDay(t) = N
    BY <2>1 DEF TargetDay, N, first, y, m
  <2>4. c = N * SecondsPerDay /\ c \in Int /\ DayNumber(c) = N
    BY <1>5, <2>3, DayStartOf DEF c
  <2>5. N # n
    BY <1>2, <1>3, <2>2 DEF N
  <2>6. c > after
    <3>1. CASE N > n
      <4>1. t < c
        BY <1>1, <1>4, <1>5, <2>4, <3>1, DayBelow DEF n
      <4> QED
        BY <1>1, <2>4, <4>1
    <3>2. CASE N < n
      <4>1. nTime < t
        <5> SUFFICES ASSUME t <= nTime PROVE FALSE
          BY <1>1, <1>6
        <5>1. n <= N
          BY <1>1, <1>6, DaysInOrder DEF n
        <5> QED
          BY <1>4, <1>5, <3>2, <5>1
      <4>2. nTime \in (after + 1)..(t - 1)
        BY <1>1, <1>6, <1>8, <4>1
      <4>3. Timely(nTime) /\ SameMonth(nTime, t)
        BY <1>5, <1>6 DEF Timely, SameMonth, Year, Month, T, y, m
      <4>4. DayNumber(after) < N
        BY <1>6, <4>2, <4>3 DEF ReachedAt
      <4>5. after < N * SecondsPerDay
        BY <1>5, <4>4, DayBelow
      <4> QED
        BY <2>4, <4>5
    <3> QED
      BY <1>4, <1>5, <2>5, <3>1, <3>2
  <2>7. c \in Nat /\ c < CalendarEnd
    <3>1. c \in Nat
      BY <2>4, <2>6
    <3> QED
      BY <1>5, <2>4, <3>1, InstantHasDay
  <2>8. SameMonth(c, t)
    BY <1>5, <2>4 DEF SameMonth, Year, Month, y, m
  <2>9. ASSUME NEW x \in (after + 1)..(c - 1), Timely(x)
        PROVE  ~SameMonth(x, c) /\ (DateMeant(AsCoded, DayNumber(x)) => SameMonth(x, c))
    <3>1. x \in Nat /\ x \in Int /\ x < c /\ x <= c
      BY <2>7
    <3>2. SameMonth(x, c) <=> SameMonth(x, t)
      BY <2>8 DEF SameMonth
    <3>3. DayNumber(x) # N
      <4>1. DayNumber(x) < N
        BY <1>5, <2>4, <3>1, DayBelow
      <4> QED
        BY <1>5, <4>1
    <3>4. x < CalendarEnd
      BY <2>7, <3>1, InstantsInOrder
    <3>5. ~SameMonth(x, t)
      BY <1>7, <2>9, <3>1, <3>3, <3>4
    <3>6. CASE x < t
      <4>1. x \in (after + 1)..(t - 1)
        BY <1>1, <3>1, <3>6
      <4> QED
        BY <2>9, <3>2, <3>5, <4>1 DEF ReachedAt
    <3>7. CASE t <= x
      <4>1. SameMonth(t, c)
        BY <2>8 DEF SameMonth
      <4>2. SameMonth(x, c)
        BY <1>1, <2>7, <3>1, <3>7, <4>1, SameMonthBetween
      <4> QED
        BY <3>2, <3>5, <4>2
    <3> QED
      BY <1>1, <3>1, <3>6, <3>7
  <2> QED
    BY <2>6, <2>7, <2>9 DEF ReachedAt, c
<1>9. CASE ~(nTime >= after + 1)
  <2>1. DayTarget(t) = [day |-> k, month |-> m + 1]
    BY <1>3, <1>9 DEF nTime, N
  <2>2. nTime <= after
    BY <1>6, <1>9
  <2>3. N < n
    <3> SUFFICES ASSUME n <= N PROVE FALSE
      BY <1>4, <1>5
    <3> DEFINE a == SecondsPerDay * n
               b == SecondsPerDay * N
    <3>1. a \in Int /\ b \in Int /\ a <= b /\ nTime = b + T /\ t = a + T
      <4>1. a \in Int /\ b \in Int /\ nTime = b + T /\ t = a + T
        BY <1>4, <1>5, ClockUnits DEF nTime
      <4>2. N - n \in Nat
        BY <1>4, <1>5
      <4>3. SecondsPerDay * (N - n) \in Nat
        BY <4>2, ClockUnits
      <4>4. b = a + SecondsPerDay * (N - n)
        BY <1>4, <1>5, ClockUnits
      <4> HIDE DEF a, b
      <4> QED
        BY <4>1, <4>3, <4>4
    <3> HIDE DEF a, b
    <3> QED
      BY <1>1, <1>4, <2>2, <3>1
  \* nothing of this month is passed
  <2>4. ASSUME NEW x \in (after + 1)..(t - 1), Timely(x) PROVE ~SameMonth(x, t)
    <3> SUFFICES ASSUME SameMonth(x, t) PROVE FALSE
      OBVIOUS
    <3>1. x \in Nat /\ x <= t
      BY <1>1
    <3>2. x < CalendarEnd
      BY <1>1, <3>1, InstantsInOrder
    <3>3. DayNumber(x) = N
      BY <1>7, <2>4, <3>1, <3>2
    <3>4. DayNumber(after) < N
      BY <2>4, <3>3 DEF ReachedAt
    <3>5. N <= DayNumber(after)
      BY <1>6, <2>2, DaysInOrder
    <3>6. DayNumber(after) \in Int
      BY ClockFields
    <3> QED
      BY <1>5, <3>4, <3>5, <3>6
  <2> DEFINE next == MonthStart[y][m + 1]
  <2>5. PICK z \in CalendarYears, q \in 1..12 :
           /\ MonthStart[z][q] = next
           /\ LastDayOfMonth(q, z) \in 28..31
           /\ ~(z = y /\ q = m)
    BY <1>2, FollowingMonth
  <2>6. next = first + last /\ next \in Nat
    <3>1. MonthStart[y][m + 1] = MonthStart[y][m] + LastDayOfMonth(m, y)
      BY <1>2, MonthStarts
    <3> QED
      BY <1>2, <3>1 DEF first, last
  <2> HIDE DEF next
  <2> DEFINE P == next + k - 1
  <2>7. TargetDay(t) = P
    BY <2>1 DEF TargetDay, next, y
  <2>8. P \in Int /\ P >= next /\ P < next + 28
    BY <1>3, <2>6
  <2> HIDE DEF P
  <2>9. c = P * SecondsPerDay /\ c \in Int /\ DayNumber(c) = P /\ c % SecondsPerDay = 0
    BY <2>7, <2>8, DayStartOf DEF c
  <2>10. ASSUME NEW p \in Int, p >= next, p <= P
         PROVE  p \in CalendarDays /\ DateOf[p].year = z /\ DateOf[p].month = q
    <3>1. p >= MonthStart[z][q] /\ p < MonthStart[z][q] + LastDayOfMonth(q, z)
      BY <2>5, <2>6, <2>8, <2>10
    <3> QED
      BY <3>1, DaysOfMonth
  <2>11. P \in CalendarDays /\ DateOf[P].year = z /\ DateOf[P].month = q
    BY <2>8, <2>10
  <2>12. t < c /\ c \in Nat /\ c < CalendarEnd /\ c > after
    <3>1. n < P
      BY <1>2, <2>6, <2>8
    <3>2. t < c
      BY <1>1, <2>8, <2>9, <3>1, DayBelow DEF n
    <3>3. c \in Nat /\ c > after
      BY <1>1, <2>9, <3>2
    <3> QED
      BY <2>9, <2>11, <3>2, <3>3, InstantHasDay
  <2>13. ~SameMonth(t, c)
    BY <2>5, <2>9, <2>11 DEF SameMonth, Year, Month, y, m
  <2>14. ASSUME NEW x \in (after + 1)..(c - 1), Timely(x)
         PROVE  /\ DateMeant(AsCoded, DayNumber(x)) => SameMonth(x, c)
                /\ SameMonth(x, c) =>
                     /\ expr.nearestWeekday
                     /\ DayNumber(after) < DayNumber(x)
                     /\ \A s \in TimesMeant(AsCoded) : c % SecondsPerDay <= s
    <3>1. x \in Nat /\ x \in Int /\ x < c /\ x <= c
      BY <2>12
    <3>2. x < CalendarEnd
      BY <2>12, <3>1, InstantsInOrder
    <3>3. CASE x < t
      <4>1. x \in (after + 1)..(t - 1) /\ x <= t /\ t <= c
        BY <1>1, <2>12, <3>1, <3>3
      <4>2. ~DateMeant(AsCoded, DayNumber(x))
        BY <2>4, <2>14, <4>1 DEF ReachedAt
      <4>3. ~SameMonth(x, c)
        BY <1>1, <2>12, <2>13, <3>1, <4>1, SameMonthBetween
      <4> QED
        BY <4>2, <4>3
    <3>4. CASE t <= x
      <4>1. n <= DayNumber(x) /\ DayNumber(x) \in Int
        BY <1>1, <3>1, <3>4, DaysInOrder, ClockFields DEF n
      <4>2. ~SameMonth(x, t)
        BY <1>4, <1>5, <1>7, <2>3, <2>14, <3>1, <3>2, <4>1
      <4>3. DayNumber(x) >= next
        <5> SUFFICES ASSUME DayNumber(x) < next PROVE FALSE
          BY <2>6, <4>1
        <5>1. DayNumber(x) >= first /\ DayNumber(x) < first + last
          BY <1>2, <2>6, <4>1
        <5>2. DateOf[DayNumber(x)].year = y /\ DateOf[DayNumber(x)].month = m
          <6>1. DayNumber(x) >= MonthStart[y][m] /\ DayNumber(x) < MonthStart[y][m] + LastDayOfMonth(m, y)
            BY <5>1 DEF first, last
          <6> QED
            BY <1>2, <4>1, <6>1, DaysOfMonth
        <5> QED
          BY <4>2, <5>2 DEF SameMonth, Year, Month, y, m
      <4>4. DayNumber(x) < P
        BY <2>8, <2>9, <3>1, DayBelow
      <4>5. SameMonth(x, c)
        BY <2>8, <2>9, <2>10, <2>11, <4>1, <4>3, <4>4 DEF SameMonth, Year, Month
      <4>6. DayNumber(after) < DayNumber(x)
        <5>1. DayNumber(after) <= n /\ DayNumber(after) \in Int
          <6>1. after \in Int /\ t \in Int /\ after <= t
            BY <1>1
          <6> QED
            BY <6>1, DaysInOrder, ClockFields DEF n
        <5>2. n < next /\ n \in Int /\ next \in Int
          BY <1>2, <2>6
        <5> QED
          BY ONLY <4>1, <4>3, <5>1, <5>2
      <4>7. \A s \in TimesMeant(AsCoded) : c % SecondsPerDay <= s
        BY <2>9, ClockUnits DEF TimesMeant
      <4> QED
        BY <4>5, <4>6, <4>7 DEF WeekdayOfMonth
    <3> QED
      BY <1>1, <3>1, <3>3, <3>4
  <2> QED
    BY <2>12, <2>14 DEF ReachedAt, c
<1> QED
  BY <1>8, <1>9

-----------------------------------------------------------------------------
(* The end of the search *)

\* A minute is no longer than an hour, an hour no longer than a day.
LEMMA UnitsInOrder ==
  SecondsPerMinute <= SecondsPerHour /\ SecondsPerHour <= SecondsPerDay
<1>1. ASSUME NEW a \in Nat, NEW b \in Nat, b > 0 PROVE a <= a * b
  <2>1. b - 1 \in Nat
    BY <1>1
  <2>2. a * (b - 1) \in Nat /\ a * b = a + a * (b - 1)
    BY <2>1
  <2> QED
    BY <2>2
<1> QED
  BY <1>1, ClockUnits DEF SecondsPerHour, SecondsPerDay

\* The tables go on for two years after the last in which the search loops.
LEMMA RoomToSearch ==
  ASSUME NEW c \in Nat, c < CalendarEnd, Year(c) <= EndlessYear,
         NEW u \in Nat, u <= c + 3 * SecondsPerDay
  PROVE  u < CalendarEnd /\ Year(u) < LastYear
<1> DEFINE y == LastYear - 1
           one == 1
           G == MonthStart[y][one] * SecondsPerDay
           H == MonthStart[LastYear][one] * SecondsPerDay
<1>1. /\ y \in CalendarYears /\ LastYear \in CalendarYears /\ LastYear = y + 1 /\ y \in Int
      /\ LastYear \in Int /\ EndlessYear < y
  <2>1. LastYear \in Int /\ FirstYear \in Int /\ FirstYear < LastYear
    BY CalendarAssumption
  <2>2. EndlessYear \in Int /\ EndlessYear <= LastYear - 2
    <3>1. MaxYear \in Int
      BY MeaningAssumption, CalendarAssumption
    <3> QED
      BY <2>1, <3>1, CronAssumption
  <2> QED
    BY <2>1, <2>2 DEF CalendarYears
<1>2. one \in 1..12 /\ one = 1
  OBVIOUS
<1> HIDE DEF y, one
<1>3. /\ G \in Nat /\ G < CalendarEnd /\ Year(G) = y
  BY <1>1, <1>2, MonthBegins
<1>4. H \in Nat /\ H < CalendarEnd
  BY <1>1, <1>2, MonthBegins
<1>5. c < G
  <2> SUFFICES ASSUME G <= c PROVE FALSE
    BY <1>3
  <2> HIDE DEF G
  <2>1. Year(G) <= Year(c)
    BY <1>3, InstantsInOrder
  <2>2. Year(c) \in Int
    BY InstantDated
  <2>3. EndlessYear \in Int
    <3>1. MaxYear \in Int
      BY MeaningAssumption, CalendarAssumption
    <3> QED
      BY <1>1, <3>1, CronAssumption
  <2> QED
    BY <1>1, <1>3, <2>1, <2>2, <2>3
<1> DEFINE a == MonthStart[y][one]
           b == MonthStart[LastYear][one]
<1>6. a \in Nat /\ b \in Nat /\ a + 28 <= b
  <2>1. b = MonthStart[y][13]
    <3>1. MonthStart[y + 1][1] = MonthStart[y][13]
      BY <1>1, <1>2, MonthStarts
    <3> QED
      BY <1>1, <1>2, <3>1
  <2>2. /\ MonthStart[y][one] + LastDayOfMonth(one, y) <= MonthStart[y][13]
        /\ LastDayOfMonth(one, y) \in 28..31
        /\ MonthStart[y][one] \in Nat /\ MonthStart[y][13] \in Nat
    BY <1>1, <1>2, MonthStarts
  <2> QED
    BY <2>1, <2>2
<1>7. G + 3 * SecondsPerDay <= H
  <2> HIDE DEF a, b
  <2>1. b - a - 3 \in Nat
    BY <1>6
  <2>2. (b - a - 3) * SecondsPerDay \in Nat
    BY <2>1, ClockUnits
  <2>3. b * SecondsPerDay = a * SecondsPerDay + 3 * SecondsPerDay + (b - a - 3) * SecondsPerDay
    BY <1>6, ClockUnits
  <2>4. a * SecondsPerDay \in Nat /\ 3 * SecondsPerDay \in Nat
    BY <1>6, ClockUnits
  <2>5. a * SecondsPerDay + 3 * SecondsPerDay <= b * SecondsPerDay
    BY <2>2, <2>3, <2>4
  <2> QED
    BY <2>5 DEF a, b
<1>8. u < H
  <2>1. 3 * SecondsPerDay \in Nat
    BY ClockUnits
  <2> HIDE DEF G, H
  <2> QED
    BY <1>3, <1>4, <1>5, <1>7, <2>1
<1>9. CalendarEnd \in Nat
  BY InstantHasDay
<1>10. u < CalendarEnd
  <2> HIDE DEF H
  <2> QED
    BY <1>4, <1>8, <1>9
<1>11. DayNumber(u) < b
  BY <1>6, <1>8, DayBelow
<1>12. /\ Year(u) \in CalendarYears /\ Year(u) \in Int /\ Month(u) \in 1..12 /\ Year(u) <= LastYear
       /\ Day(u) \in 1..LastDayOfMonth(Month(u), Year(u))
       /\ MonthStart[Year(u)][Month(u)] \in Nat
       /\ DayNumber(u) = MonthStart[Year(u)][Month(u)] + Day(u) - 1 /\ DayNumber(u) \in Nat
       /\ LastDayOfMonth(Month(u), Year(u)) \in 28..31
  BY <1>10, InstantDated
<1>13. Year(u) # LastYear
  <2> SUFFICES ASSUME Year(u) = LastYear PROVE FALSE
    OBVIOUS
  <2>1. b <= MonthStart[LastYear][Month(u)]
    <3>1. CASE Month(u) = one
      BY <1>6, <3>1
    <3>2. CASE Month(u) # one
      <4> DEFINE m == Month(u)
      <4>1. m \in 1..13 /\ one < m
        BY <1>2, <1>12, <3>2
      <4> HIDE DEF m
      <4>2. /\ MonthStart[LastYear][one] + LastDayOfMonth(one, LastYear) <= MonthStart[LastYear][m]
            /\ LastDayOfMonth(one, LastYear) \in 28..31
        BY <1>1, <1>2, <4>1, MonthStarts
      <4>3. MonthStart[LastYear][m] \in Nat
        BY <1>1, <4>1, StartIsNumber
      <4> HIDE DEF b
      <4>4. MonthStart[LastYear][one] \in Nat
        BY <1>6 DEF b
      <4>5. MonthStart[LastYear][one] <= MonthStart[LastYear][m]
        BY <4>2, <4>3, <4>4
      <4> QED
        BY <4>5 DEF b, m
    <3> QED
      BY <3>1, <3>2
  <2>2. MonthStart[LastYear][Month(u)] <= DayNumber(u)
    BY <1>12
  <2> HIDE DEF b
  <2> QED
    BY <1>6, <1>11, <1>12, <2>1, <2>2
<1> QED
  BY <1>1, <1>10, <1>12, <1>13

\* The dates the search is given lie before the tables' end.
LEMMA AfterIsCovered ==
  ASSUME after \in Afters
  PROVE  after \in Nat /\ after < CalendarEnd /\ after + 1 < CalendarEnd
<1> DEFINE one == 1
           a == MonthStart[LastYear][one]
           F == a * SecondsPerDay
<1>1. LastYear \in CalendarYears
  BY CalendarAssumption DEF CalendarYears
<1>2. one \in 1..12 /\ one \in 1..13 /\ one \in Int
  OBVIOUS
<1>3. Instant(LastYear, 1, 1, 0, 0, 0) = F
  <2>1. Instant(LastYear, one, one, 0, 0, 0) = (MonthStart[LastYear][one] + one - 1) * SecondsPerDay
    <3> HIDE DEF one
    <3> QED
      BY <1>1, <1>2, InstantOfDay
  <2>2. MonthStart[LastYear][one] + one - 1 = MonthStart[LastYear][one]
    BY <1>1, StartIsNumber
  <2> QED
    BY <2>1, <2>2
<1> HIDE DEF one
<1>4. a \in Nat /\ MonthStart[LastYear][13] \in Nat /\ a + 28 <= MonthStart[LastYear][13]
  <2>1. /\ MonthStart[LastYear][one] + LastDayOfMonth(one, LastYear) <= MonthStart[LastYear][13]
        /\ LastDayOfMonth(one, LastYear) \in 28..31
        /\ MonthStart[LastYear][one] \in Nat /\ MonthStart[LastYear][13] \in Nat
    BY <1>1, <1>2, MonthStarts
  <2> QED
    BY <2>1
<1>5. F \in Nat /\ F + 28 <= CalendarEnd /\ CalendarEnd \in Nat
  <2> DEFINE b == MonthStart[LastYear][13]
             S == SecondsPerDay
  <2>1. S \in Nat /\ S - 1 \in Nat /\ a \in Nat /\ b \in Nat /\ b - a - 28 \in Nat
    BY <1>4, ClockUnits
  <2> HIDE DEF a, b, S
  <2>2. b * S = a * S + 28 * S + (b - a - 28) * S /\ 28 * S = 28 + 28 * (S - 1)
    BY <2>1
  <2>3. a * S \in Nat /\ (b - a - 28) * S \in Nat /\ 28 * (S - 1) \in Nat /\ b * S \in Nat
    BY <2>1
  <2>4. a * S + 28 <= b * S
    BY <2>2, <2>3
  <2> QED
    BY <2>3, <2>4 DEF CalendarEnd, b, S
<1> HIDE DEF F
<1>6. after \in 0..F
  BY <1>3, CronAssumption
<1> QED
  BY <1>5, <1>6

\* Where the calendar stands once its second is set
LEMMA AimedReached ==
  ASSUME after \in Nat, Ready, ReachedAt(cl), Year(cl) <= EndlessYear
  PROVE  /\ Aimed \in Nat /\ Aimed < CalendarEnd /\ Year(Aimed) < LastYear
         /\ ReachedAt(Aimed) /\ Aimed > after
         /\ Second(Aimed) \in expr.seconds
         /\ \A u \in Nat : u <= Aimed + SecondsPerDay => u < CalendarEnd
<1>1. cl \in Nat /\ cl < CalendarEnd
  BY DEF ReachedAt
<1>2. /\ Aimed \in Nat /\ cl <= Aimed /\ Aimed < cl + SecondsPerMinute
      /\ Second(Aimed) \in expr.seconds
      /\ \A x \in cl..Aimed-1 : x % SecondsPerDay \notin TimesMeant(AsCoded)
  BY <1>1, AimedSkips
<1> HIDE DEF Aimed
<1>3. ASSUME NEW u \in Nat, u <= Aimed + SecondsPerDay
      PROVE  u < CalendarEnd /\ Year(u) < LastYear
  <2>1. u <= cl + 3 * SecondsPerDay
    <3>1. /\ SecondsPerMinute \in Nat /\ SecondsPerHour \in Nat /\ SecondsPerDay \in Nat
          /\ SecondsPerMinute <= SecondsPerHour /\ SecondsPerHour <= SecondsPerDay
      BY ClockUnits, UnitsInOrder
    <3> QED
      BY <1>1, <1>2, <1>3, <3>1
  <2> QED
    BY <1>1, <2>1, RoomToSearch
<1>4. Aimed < CalendarEnd /\ Year(Aimed) < LastYear
  <2>1. Aimed <= Aimed + SecondsPerDay
    BY <1>2, ClockUnits
  <2> QED
    BY <1>2, <1>3, <2>1
<1>5. ReachedAt(Aimed)
  BY <1>2, <1>4, TimeStep
<1>6. Aimed > after
  BY <1>5 DEF ReachedAt
<1> QED
  BY <1>2, <1>3, <1>4, <1>5, <1>6

\* A calendar at a time of day that is meant and on the day its rule wants is on a day
\* that is meant; of this month the days before it are not.
LEMMA DayFitsMeans ==
  ASSUME after \in Nat, Ready, NEW t, ReachedAt(t), Year(t) < LastYear,
         DayTarget(t) = Here(t)
  PROVE  /\ DayMeant(AsCoded, DayNumber(t))
         /\ \A x \in (after + 1)..(t - 1) : ~(Timely(x) /\ SameMonth(x, t))
<1>1. t \in Nat /\ t > after /\ t < CalendarEnd
  BY DEF ReachedAt
<1>2. CASE ~expr.nearestWeekday /\ KeepsDays(t)
  BY <1>2 DEF KeepsDays, ReachedAt
<1>3. CASE WeekdayOfMonth
  <2> DEFINE y == Year(t)
             m == Month(t)
             first == MonthStart[y][m]
             last == LastDayOfMonth(m, y)
  <2>1. /\ Day(t) \in 1..last /\ DayNumber(t) = first + Day(t) - 1 /\ m \in 1..12
        /\ DayNumber(t) \in Int
    BY <1>1, InstantDated
  <2>2. PICK near \in 1..last, k \in 1..28 :
          /\ \A j \in 1..last : DayMeant(AsCoded, first + j - 1) <=> j = near
          /\ DayTarget(t) = [day |-> near, month |-> m] \/ DayTarget(t) = [day |-> k, month |-> m + 1]
    BY <1>1, <1>3, WeekdayRule
  <2>3. near = Day(t)
    <3>1. DayTarget(t) = [day |-> Day(t), month |-> m]
      BY DEF Here
    <3>2. m + 1 # m
      BY <2>1
    <3> HIDE DEF m
    <3> QED
      BY <2>2, <3>1, <3>2
  <2>4. DayMeant(AsCoded, DayNumber(t))
    BY <2>1, <2>2, <2>3
  <2>5. ASSUME NEW x \in (after + 1)..(t - 1), Timely(x), SameMonth(x, t) PROVE FALSE
    <3>1. x \in Nat /\ x \in Int /\ x < t /\ x <= t
      BY <1>1
    <3>2. x < CalendarEnd
      BY <1>1, <3>1, InstantsInOrder
    <3>3. Day(x) \in 1..last /\ DayNumber(x) = first + Day(x) - 1
      BY <2>5, <3>1, <3>2, InstantDated DEF SameMonth
    <3>4. DayMeant(AsCoded, first + Day(x) - 1)
      BY <2>5, <3>3 DEF Timely
    <3>5. DayNumber(x) = DayNumber(t)
      BY <2>1, <2>2, <2>3, <3>3, <3>4
    <3>6. x % SecondsPerDay \in TimesMeant(AsCoded)
      BY <2>5 DEF Timely
    <3>7. t % SecondsPerDay <= x % SecondsPerDay
      BY <2>5, <3>6 DEF ReachedAt
    <3>8. /\ x = SecondsPerDay * DayNumber(x) + (x % SecondsPerDay)
          /\ t = SecondsPerDay * DayNumber(t) + (t % SecondsPerDay)
          /\ x % SecondsPerDay \in 0..SecondsPerDay-1 /\ t % SecondsPerDay \in 0..SecondsPerDay-1
      BY <1>1, <3>1, ClockFields
    <3> DEFINE a == SecondsPerDay * DayNumber(t)
               b == x % SecondsPerDay
               c == t % SecondsPerDay
    <3>9. a \in Int /\ b \in Int /\ c \in Int /\ x = a + b /\ t = a + c /\ c <= b
      <4>1. SecondsPerDay \in Int
        BY ClockUnits
      <4> QED
        BY <2>1, <3>5, <3>7, <3>8, <4>1
    <3> HIDE DEF a, b, c
    <3> QED
      BY <3>1, <3>9
  <2> QED
    BY <2>4, <2>5
<1> QED
  BY <1>1, <1>2, <1>3, RulesKeepDays

\* Of the instants between two dates none is meant.
LEMMA NoneOf ==
  ASSUME after \in Nat, NEW end \in Nat,
         \A x \in (after + 1)..(end - 1) : ~(Timely(x) /\ DateMeant(AsCoded, DayNumber(x)))
  PROVE  NoneBetween(AsCoded, after, end)
<1> SUFFICES ASSUME NEW n \in DayNumber(after)..DayNumber(end), DateMeant(AsCoded, n),
                    NEW s \in TimesMeant(AsCoded)
             PROVE  n * SecondsPerDay + s <= after \/ n * SecondsPerDay + s >= end
  BY DEF NoneBetween
<1> DEFINE x == n * SecondsPerDay + s
<1>1. n \in Int
  <2>1. DayNumber(after) \in Int /\ DayNumber(end) \in Int
    BY ClockFields
  <2> QED
    BY <2>1
<1>2. s \in 0..SecondsPerDay-1
  BY DEF TimesMeant
<1>3. x \in Int /\ DayNumber(x) = n /\ x % SecondsPerDay = s
  BY <1>1, <1>2, DayAndTime
<1> HIDE DEF x
<1>4. Timely(x) /\ DateMeant(AsCoded, DayNumber(x))
  BY <1>3 DEF Timely, DateMeant
<1>5. x <= after \/ x >= end
  BY <1>3, <1>4
<1> QED
  BY <1>5 DEF x

\* The end of the years an expression can name
LEMMA YearsEnd ==
  EndOfYears \in Nat /\ EndOfYears <= CalendarEnd
<1>1. MaxYear \in CalendarYears /\ LastYear \in CalendarYears
  BY MeaningAssumption, CalendarAssumption DEF CalendarYears
<1> DEFINE a == MonthStart[MaxYear][13]
           b == MonthStart[LastYear][13]
<1>2. EndOfYears = a * SecondsPerDay
  <2>1. 13 \in 1..13 /\ 1 \in Int
    OBVIOUS
  <2>2. Instant(MaxYear, 13, 1, 0, 0, 0) = (MonthStart[MaxYear][13] + 1 - 1) * SecondsPerDay
    BY <1>1, <2>1, InstantOfDay
  <2>3. MonthStart[MaxYear][13] + 1 - 1 = MonthStart[MaxYear][13]
    BY <1>1, <2>1, StartIsNumber
  <2> QED
    BY <2>2, <2>3 DEF EndOfYears
<1>3. a \in Nat /\ b \in Nat /\ a <= b
  <2> DEFINE one == 1
             y == MaxYear
             z == LastYear
  <2>1. one \in 1..12 /\ y \in CalendarYears /\ z \in CalendarYears
    BY <1>1
  <2>2. y <= z /\ y \in Int /\ z \in Int
    BY MeaningAssumption, CalendarAssumption
  <2> HIDE DEF y, z, one
  <2>3. /\ MonthStart[y][13] \in Nat /\ MonthStart[z][13] \in Nat /\ MonthStart[z][one] \in Nat
        /\ MonthStart[z][one] + LastDayOfMonth(one, z) <= MonthStart[z][13]
        /\ LastDayOfMonth(one, z) \in 28..31
        /\ (y < z => MonthStart[y][13] <= MonthStart[z][1])
    BY <2>1, MonthStarts
  <2>4. y = z \/ y < z
    BY <2>2
  <2>5. MonthStart[y][13] <= MonthStart[z][13]
    BY <2>3, <2>4 DEF one
  <2> QED
    BY <2>3, <2>5 DEF y, z
<1> HIDE DEF a, b
<1>4. (b - a) * SecondsPerDay \in Nat /\ a * SecondsPerDay \in Nat
      /\ b * SecondsPerDay = a * SecondsPerDay + (b - a) * SecondsPerDay
  <2>1. b - a \in Nat
    BY <1>3
  <2> QED
    BY <1>3, <2>1, ClockUnits
<1>5. a * SecondsPerDay <= b * SecondsPerDay
  BY <1>4
<1> QED
  BY <1>2, <1>4, <1>5 DEF CalendarEnd, b

\* Nothing is left if what is meant lies in earlier years than the calendar.
LEMMA NoneLeft ==
  ASSUME after \in Nat, Ready, NEW t, ReachedAt(t),
         \A x \in Nat : x < CalendarEnd /\ DateMeant(AsCoded, DayNumber(x)) => Year(x) < Year(t)
  PROVE  NoneBetween(AsCoded, after, EndOfYears)
<1>1. t \in Nat /\ t < CalendarEnd
  BY DEF ReachedAt
<1>2. ASSUME NEW x \in (after + 1)..(EndOfYears - 1), Timely(x), DateMeant(AsCoded, DayNumber(x))
      PROVE  FALSE
  <2>1. x \in Nat /\ x < EndOfYears
    BY YearsEnd
  <2>2. x < CalendarEnd
    <3>1. CalendarEnd \in Nat
      BY <1>1, InstantHasDay
    <3> QED
      BY <2>1, <3>1, YearsEnd
  <2>3. Year(x) < Year(t) /\ Year(x) \in Int /\ Year(t) \in Int
    BY <1>1, <1>2, <2>1, <2>2, InstantDated
  <2>4. ~(t <= x)
    <3> SUFFICES ASSUME t <= x PROVE FALSE
      OBVIOUS
    <3>1. Year(t) <= Year(x)
      BY <1>1, <2>1, <2>2, InstantsInOrder
    <3> QED
      BY <2>3, <3>1
  <2>5. x \in (after + 1)..(t - 1)
    BY <1>1, <2>1, <2>4
  <2>6. SameMonth(x, t)
    BY <1>2, <2>5 DEF ReachedAt
  <2> QED
    BY <2>3, <2>6 DEF SameMonth
<1>3. EndOfYears \in Nat
  BY YearsEnd
<1> QED
  BY <1>2, <1>3, NoneOf

-----------------------------------------------------------------------------
(* The invariant of getTimeAfter, and what follows from it *)

\* The invariant holds at first.
LEMMA CronInvInit == Init => CronInv
<1> SUFFICES ASSUME Init PROVE CronInv
  OBVIOUS
<1>1. 0 < CalendarEnd
  BY AfterIsCovered, InstantHasDay DEF Init
<1> QED
  BY <1>1 DEF Init, CronInv, AnswerIsNext

\* The expression stays.
LEMMA CodedStays == ASSUME text' = text PROVE AsCoded' = AsCoded
BY DEF AsCoded

\* What the search starts an iteration from
LEMMA Searching ==
  ASSUME CronInv, Documented(text), pc = "search"
  PROVE  Ready /\ ReachedAt(cl) /\ after \in Nat
BY AfterIsCovered, ReachedByDays DEF CronInv, Ready

\* An iteration that moves the calendar keeps the invariant if it goes where the search may stand.
LEMMA Moved ==
  ASSUME CronInv, pc = "search", NEW u, MoveTo(u), Documented(text) => ReachedAt(u)
  PROVE  CronInv'
<1>1. cl' = u /\ text' = text /\ expr' = expr /\ after' = after /\ pc' = "search"
  BY DEF MoveTo
<1>2. Accepted' /\ expr' = Built'
  BY <1>1 DEF CronInv, Accepted, DaysAccepted, Built, FieldSet, TermsOf, Argument
<1>3. ASSUME Documented(text) PROVE Reached(cl)' /\ u \in Nat /\ u < CalendarEnd
  <2>1. Reached(u) /\ u \in Nat /\ u < CalendarEnd
    BY <1>3, AfterIsCovered, ReachedByDays DEF CronInv, Reached
  <2> QED
    BY <1>1, <2>1, CodedStays DEF Reached
<1> QED
  BY <1>1, <1>2, <1>3, CodedStays DEF CronInv, AnswerIsNext

\* A step that ends the search keeps it if its answer is right.
LEMMA Ended ==
  ASSUME CronInv, pc = "search", NEW how \in {"none", "threw"}, End(how),
         Documented(text) => how = "none" /\ NoneBetween(AsCoded, after, EndOfYears)
  PROVE  CronInv'
<1>1. cl' = cl /\ text' = text /\ expr' = expr /\ after' = after /\ pc' = how
  BY DEF End
<1>2. Accepted' /\ expr' = Built'
  BY <1>1 DEF CronInv, Accepted, DaysAccepted, Built, FieldSet, TermsOf, Argument
<1> QED
  BY <1>1, <1>2, CodedStays DEF CronInv, AnswerIsNext

\* The constructor
LEMMA BuildKeeps == ASSUME CronInv, Build PROVE CronInv'
<1>1. cl' = after + 1 /\ text' = text /\ expr' = Built /\ after' = after /\ pc' = "search" /\ Accepted
  BY DEF Build
<1>2. Accepted' /\ expr' = Built'
  BY <1>1 DEF Accepted, DaysAccepted, Built, FieldSet, TermsOf, Argument
<1>3. after \in Nat /\ after + 1 < CalendarEnd
  BY AfterIsCovered DEF CronInv
<1>4. Reached(cl)'
  <2>1. cl' \in Nat /\ cl' > after' /\ cl' < CalendarEnd
    BY <1>1, <1>3
  <2>2. ASSUME NEW n \in DayNumber(after')..DayNumber(cl'), NEW t \in TimesMeant(AsCoded')
        PROVE  ~(n * SecondsPerDay + t > after' /\ n * SecondsPerDay + t < cl')
    <3>1. DayNumber(after') \in Int /\ DayNumber(cl') \in Int
      BY <1>1, <1>3, ClockFields
    <3>2. n \in Int /\ t \in 0..SecondsPerDay-1
      BY <3>1 DEF TimesMeant
    <3>3. n * SecondsPerDay + t \in Int
      BY <3>2, DayAndTime
    <3> QED
      BY <1>1, <1>3, <3>3
  <2> QED
    BY <2>1, <2>2 DEF Reached
<1> QED
  BY <1>1, <1>2, <1>3, <1>4, CodedStays DEF CronInv, AnswerIsNext

\* A ParseException
LEMMA RejectKeeps == ASSUME CronInv, Reject PROVE CronInv'
BY CodedStays DEF CronInv, Reject, AnswerIsNext

\* The rule of minutes
LEMMA NextMinuteKeeps == ASSUME CronInv, NextMinute PROVE CronInv'
<1>1. pc = "search" /\ Year(cl) <= EndlessYear /\ MoveTo(MinuteTarget(Aimed))
      /\ Minute(Aimed) \notin expr.minutes
  BY DEF NextMinute, Looping, MinuteTarget, MinuteFits
<1>2. ASSUME Documented(text) PROVE ReachedAt(MinuteTarget(Aimed))
  <2>1. Ready /\ ReachedAt(cl) /\ after \in Nat
    BY <1>1, <1>2, Searching
  <2>2. /\ Aimed \in Nat /\ Aimed < CalendarEnd /\ ReachedAt(Aimed)
        /\ \A u \in Nat : u <= Aimed + SecondsPerDay => u < CalendarEnd
    BY <1>1, <2>1, AimedReached
  <2> DEFINE t == Aimed
             u == MinuteTarget(t)
  <2> HIDE DEF t
  <2>3. /\ u \in Nat /\ t < u /\ u <= t + SecondsPerHour
        /\ \A x \in t..u-1 : x % SecondsPerDay \notin TimesMeant(AsCoded)
    BY <1>1, <2>1, <2>2, MinuteSkips DEF t
  <2> HIDE DEF u
  <2>4. u <= t + SecondsPerDay /\ t <= u
    <3>1. t \in Nat /\ SecondsPerHour \in Nat /\ SecondsPerDay \in Nat /\ SecondsPerHour <= SecondsPerDay
      BY <2>2, ClockUnits, UnitsInOrder DEF t
    <3> QED
      BY <2>3, <3>1
  <2>5. u < CalendarEnd
    BY <2>2, <2>3, <2>4 DEF t
  <2>6. ReachedAt(u)
    BY <2>1, <2>2, <2>3, <2>4, <2>5, TimeStep DEF t
  <2> QED
    BY <2>6 DEF u, t
<1> QED
  BY <1>1, <1>2, Moved

\* The rule of hours
LEMMA NextHourKeeps == ASSUME CronInv, NextHour PROVE CronInv'
<1>1. pc = "search" /\ Year(cl) <= EndlessYear /\ MoveTo(HourTarget(Aimed))
      /\ Hour(Aimed) \notin expr.hours
  BY DEF NextHour, Looping, HourTarget, HourFits
<1>2. ASSUME Documented(text) PROVE ReachedAt(HourTarget(Aimed))
  <2>1. Ready /\ ReachedAt(cl) /\ after \in Nat
    BY <1>1, <1>2, Searching
  <2>2. /\ Aimed \in Nat /\ Aimed < CalendarEnd /\ ReachedAt(Aimed)
        /\ \A u \in Nat : u <= Aimed + SecondsPerDay => u < CalendarEnd
    BY <1>1, <2>1, AimedReached
  <2> DEFINE t == Aimed
             u == HourTarget(t)
  <2> HIDE DEF t
  <2>3. /\ u \in Nat /\ t < u /\ u <= t + SecondsPerDay
        /\ \A x \in t..u-1 : x % SecondsPerDay \notin TimesMeant(AsCoded)
    BY <1>1, <2>1, <2>2, HourSkips DEF t
  <2> HIDE DEF u
  <2>4. t <= u
    BY <2>2, <2>3 DEF t
  <2>5. u < CalendarEnd
    BY <2>2, <2>3 DEF t
  <2>6. ReachedAt(u)
    BY <2>1, <2>2, <2>3, <2>4, <2>5, TimeStep DEF t
  <2> QED
    BY <2>6 DEF u, t
<1> QED
  BY <1>1, <1>2, Moved

\* The rules of days
LEMMA NextDayKeeps == ASSUME CronInv, NextDay PROVE CronInv'
<1>1. pc = "search" /\ Year(cl) <= EndlessYear /\ MoveTo(DayStart(Aimed))
      /\ Minute(Aimed) \in expr.minutes /\ Hour(Aimed) \in expr.hours
      /\ DayTarget(Aimed) # Here(Aimed)
  BY DEF NextDay, Looping, DayStart, DayFits, HourFits, MinuteFits, Here
<1>2. ASSUME Documented(text) PROVE ReachedAt(DayStart(Aimed))
  <2>1. Ready /\ ReachedAt(cl) /\ after \in Nat
    BY <1>1, <1>2, Searching
  <2>2. /\ Aimed \in Nat /\ Aimed < CalendarEnd /\ Year(Aimed) < LastYear /\ ReachedAt(Aimed)
        /\ Second(Aimed) \in expr.seconds
    BY <1>1, <2>1, AimedReached
  <2>3. Aimed % SecondsPerDay \in TimesMeant(AsCoded)
    BY <1>1, <2>1, <2>2, TimeMeant
  <2>4. WeekdayOfMonth \/ (~expr.nearestWeekday /\ KeepsDays(Aimed))
    BY <2>1, <2>2, RulesKeepDays
  <2> QED
    BY <1>1, <2>1, <2>2, <2>3, <2>4, DayStep, WeekdayStep
<1> QED
  BY <1>1, <1>2, Moved

\* The rule of months
LEMMA NextMonthKeeps == ASSUME CronInv, NextMonth PROVE CronInv'
<1> DEFINE u == Instant(Year(Aimed) + Carry(expr.months, Month(Aimed)),
                    Following(expr.months, Month(Aimed)), 1, 0, 0, 0)
<1>1. pc = "search" /\ Year(cl) <= EndlessYear /\ MoveTo(u) /\ Month(Aimed) \notin expr.months
  BY DEF NextMonth, Looping, MonthFits
<1>2. ASSUME Documented(text) PROVE ReachedAt(u)
  <2>1. Ready /\ ReachedAt(cl) /\ after \in Nat
    BY <1>1, <1>2, Searching
  <2>2. Aimed \in Nat /\ Year(Aimed) < LastYear /\ ReachedAt(Aimed)
    BY <1>1, <2>1, AimedReached
  <2> QED
    BY <1>1, <2>1, <2>2, MonthSkips
<1> HIDE DEF u
<1> QED
  BY <1>1, <1>2, Moved

\* The rule of years
LEMMA NextYearKeeps == ASSUME CronInv, NextYear PROVE CronInv'
<1> DEFINE u == Instant(Following(expr.years, Year(Aimed)), 1, 1, 0, 0, 0)
<1>1. pc = "search" /\ Year(cl) <= EndlessYear /\ MoveTo(u) /\ Year(Aimed) <= MaxYear
      /\ Year(Aimed) \notin expr.years /\ ~Wraps(expr.years, Year(Aimed))
  BY DEF NextYear, Looping, MonthFits
<1>2. ASSUME Documented(text) PROVE ReachedAt(u)
  <2>1. Ready /\ ReachedAt(cl) /\ after \in Nat
    BY <1>1, <1>2, Searching
  <2>2. Aimed \in Nat /\ Year(Aimed) < LastYear /\ ReachedAt(Aimed)
    BY <1>1, <2>1, AimedReached
  <2> QED
    BY <1>1, <2>1, <2>2, YearSkips
<1> HIDE DEF u
<1> QED
  BY <1>1, <1>2, Moved

\* What is meant lies in a year of the object's set, and none after MaxYear.
LEMMA MeantYear ==
  ASSUME Ready, NEW x \in Nat, x < CalendarEnd, DateMeant(AsCoded, DayNumber(x))
  PROVE  Year(x) \in Int /\ Year(x) <= MaxYear /\ Year(x) \in expr.years
BY NotMeant, InstantDated

\* The bound of the loop, the year 2999
LEMMA BeyondEndlessKeeps == ASSUME CronInv, BeyondEndless PROVE CronInv'
<1>1. pc = "search" /\ Year(cl) > EndlessYear /\ End("none")
  BY DEF BeyondEndless
<1>2. ASSUME Documented(text) PROVE NoneBetween(AsCoded, after, EndOfYears)
  <2>1. Ready /\ ReachedAt(cl) /\ after \in Nat
    BY <1>1, <1>2, Searching
  <2>2. MaxYear \in Int /\ EndlessYear \in Int /\ MaxYear <= EndlessYear /\ Year(cl) \in Int
    <3>1. MaxYear \in Int /\ LastYear \in Int
      BY MeaningAssumption, CalendarAssumption
    <3>2. cl \in Nat /\ cl < CalendarEnd
      BY <2>1 DEF ReachedAt
    <3> QED
      BY <3>1, <3>2, CronAssumption, InstantDated
  <2>3. ASSUME NEW x \in Nat, x < CalendarEnd, DateMeant(AsCoded, DayNumber(x))
        PROVE  Year(x) < Year(cl)
    BY <1>1, <2>1, <2>2, <2>3, MeantYear
  <2> QED
    BY <2>1, <2>3, NoneLeft
<1> QED
  BY <1>1, <1>2, Ended

\* The bound of the rule of months, MAX_YEAR
LEMMA BeyondMaxYearKeeps == ASSUME CronInv, BeyondMaxYear PROVE CronInv'
<1>1. pc = "search" /\ Year(cl) <= EndlessYear /\ Year(Aimed) > MaxYear /\ End("none")
  BY DEF BeyondMaxYear, Looping
<1>2. ASSUME Documented(text) PROVE NoneBetween(AsCoded, after, EndOfYears)
  <2>1. Ready /\ ReachedAt(cl) /\ after \in Nat
    BY <1>1, <1>2, Searching
  <2>2. Aimed \in Nat /\ Aimed < CalendarEnd /\ ReachedAt(Aimed)
    BY <1>1, <2>1, AimedReached
  <2>3. MaxYear \in Int /\ Year(Aimed) \in Int
    BY <2>2, MeaningAssumption, CalendarAssumption, InstantDated
  <2>4. ASSUME NEW x \in Nat, x < CalendarEnd, DateMeant(AsCoded, DayNumber(x))
        PROVE  Year(x) < Year(Aimed)
    <3>1. Year(x) \in Int /\ Year(x) <= MaxYear
      BY <2>1, <2>4, MeantYear
    <3> QED
      BY <1>1, <2>3, <3>1
  <2> QED
    BY <2>1, <2>2, <2>4, NoneLeft
<1> QED
  BY <1>1, <1>2, Ended

\* The years of the expression are over.
LEMMA RanOutOfYearsKeeps == ASSUME CronInv, RanOutOfYears PROVE CronInv'
<1>1. pc = "search" /\ Year(cl) <= EndlessYear /\ Wraps(expr.years, Year(Aimed)) /\ End("none")
  BY DEF RanOutOfYears, Looping
<1>2. ASSUME Documented(text) PROVE NoneBetween(AsCoded, after, EndOfYears)
  <2>1. Ready /\ ReachedAt(cl) /\ after \in Nat
    BY <1>1, <1>2, Searching
  <2>2. Aimed \in Nat /\ Aimed < CalendarEnd /\ ReachedAt(Aimed)
    BY <1>1, <2>1, AimedReached
  <2>3. Year(Aimed) \in Int
    BY <2>2, InstantDated
  <2>4. \A z \in expr.years : ~(z >= Year(Aimed))
    BY <1>1 DEF Wraps, TailSet
  <2>5. ASSUME NEW x \in Nat, x < CalendarEnd, DateMeant(AsCoded, DayNumber(x))
        PROVE  Year(x) < Year(Aimed)
    <3>1. Year(x) \in Int /\ Year(x) \in expr.years
      BY <2>1, <2>5, MeantYear
    <3>2. ~(Year(x) >= Year(Aimed))
      BY <2>4, <3>1
    <3> QED
      BY <2>3, <3>1, <3>2
  <2> QED
    BY <2>1, <2>2, <2>5, NoneLeft
<1> QED
  BY <1>1, <1>2, Ended

\* An exception, which a documented expression never meets
LEMMA ThrowKeeps == ASSUME CronInv, Throw PROVE CronInv'
<1>1. pc = "search" /\ End("threw")
  BY DEF Throw
<1>2. ~Documented(text)
  <2> SUFFICES ASSUME Documented(text) PROVE FALSE
    OBVIOUS
  <2>1. Ready
    BY <1>1, Searching
  <2> QED
    BY <2>1, SetsShaped DEF Throw, Shaped
<1> QED
  BY <1>1, <1>2, Ended

\* The answer
LEMMA FoundKeeps == ASSUME CronInv, Found PROVE CronInv'
<1>1. /\ pc = "search" /\ Year(cl) <= EndlessYear
      /\ Minute(Aimed) \in expr.minutes /\ Hour(Aimed) \in expr.hours
      /\ DayTarget(Aimed) = Here(Aimed)
      /\ Year(Aimed) <= MaxYear /\ Month(Aimed) \in expr.months /\ Year(Aimed) \in expr.years
      /\ cl' = Aimed /\ pc' = "found" /\ text' = text /\ expr' = expr /\ after' = after
  BY DEF Found, Looping, MonthFits, DayFits, HourFits, MinuteFits, Here
<1> DEFINE t == Aimed
<1>2. ASSUME Documented(text)
      PROVE  /\ t \in Nat /\ t < CalendarEnd /\ t > after
             /\ IsMeant(AsCoded, t)
             /\ NoneBetween(AsCoded, after, t)
  <2>1. Ready /\ ReachedAt(cl) /\ after \in Nat
    BY <1>1, <1>2, Searching
  <2>2. /\ t \in Nat /\ t < CalendarEnd /\ Year(t) < LastYear /\ ReachedAt(t)
        /\ Second(t) \in expr.seconds /\ t > after
    BY <1>1, <2>1, AimedReached
  <2> HIDE DEF t
  <2>3. t % SecondsPerDay \in TimesMeant(AsCoded)
    BY <1>1, <2>1, <2>2, TimeMeant DEF t
  <2>4. /\ DayMeant(AsCoded, DayNumber(t))
        /\ \A x \in (after + 1)..(t - 1) : ~(Timely(x) /\ SameMonth(x, t))
    BY <1>1, <2>1, <2>2, DayFitsMeans DEF t
  <2>5. DateMeant(AsCoded, DayNumber(t))
    <3>1. DayNumber(t) \in CalendarDays
      BY <2>2, InstantHasDay
    <3> QED
      BY <1>1, <2>1, <2>4, <3>1, DateIsMeant DEF t, Year, Month
  <2>6. ASSUME NEW x \in (after + 1)..(t - 1)
        PROVE  ~(Timely(x) /\ DateMeant(AsCoded, DayNumber(x)))
    BY <2>2, <2>4 DEF ReachedAt
  <2>7. NoneBetween(AsCoded, after, t)
    BY <2>1, <2>2, <2>6, NoneOf
  <2> QED
    BY <2>2, <2>3, <2>5, <2>7 DEF IsMeant
<1> HIDE DEF t
<1>3. Accepted' /\ expr' = Built'
  BY <1>1 DEF CronInv, Accepted, DaysAccepted, Built, FieldSet, TermsOf, Argument
<1>4. cl' = t
  BY <1>1 DEF t
<1> QED
  BY <1>1, <1>2, <1>3, <1>4, CodedStays DEF CronInv, AnswerIsNext

\* Every step keeps the invariant.
LEMMA CronInvNext == ASSUME CronInv, [Next]_vars PROVE CronInv'
<1>1. CASE UNCHANGED vars
  <2>1. text' = text /\ expr' = expr /\ after' = after /\ cl' = cl /\ pc' = pc
    BY <1>1 DEF vars
  <2> QED
    BY <2>1, CodedStays DEF CronInv, AnswerIsNext, Reached, Accepted, DaysAccepted, Built, FieldSet,
                TermsOf, Argument
<1> QED
  BY <1>1, BuildKeeps, RejectKeeps, NextMinuteKeeps, NextHourKeeps, NextDayKeeps, NextMonthKeeps,
     NextYearKeeps, BeyondEndlessKeeps, BeyondMaxYearKeeps, RanOutOfYearsKeeps, ThrowKeeps,
     FoundKeeps DEF Next, Search

\* The sets of a documented expression hold values of their fields and the markers.
LEMMA SetsInRange ==
  ASSUME Ready, NEW field \in Fields \ {"year"}
  PROVE  GetSet(field) \subseteq Low(field)..High(field) \union {AllSpec, NoSpec}
<1>1. GetSet(field) = FieldSet(field)
  BY TheSets DEF GetSet, Fields
<1>2. CASE DOMAIN text[field] # {} /\ \A i \in DOMAIN text[field] : IsNumbers(field, text[field][i])
  <2>1. FieldSet(field) \subseteq Low(field)..High(field) \union {AllSpec}
    <3>1. TermsOf(field) = text[field]
      BY DEF TermsOf
    <3> QED
      BY <1>2, <3>1, NumbersFieldSet DEF Ready
  <2> QED
    BY <1>1, <2>1
<1>3. CASE DOMAIN text[field] = {1} /\ IsSpecial(field, text[field][1])
  <2>1. field \in DayFields
    BY <1>3 DEF IsSpecial, DayFields
  <2>2. FieldSet(field) = TermValues(field, text[field][1])
    BY <1>3, <2>1, DayFieldOfOne
  <2>3. TermValues(field, text[field][1]) \subseteq Low(field)..High(field) \union {AllSpec, NoSpec}
    <3> DEFINE term == text[field][1]
               V == TermValues(field, term)
    <3>1. CASE field = "dayOfMonth"
      <4>1. V = {NoSpec} \/ V = {} \/ (V = {term.val} /\ term.val \in 1..28)
        BY <1>3, <3>1 DEF IsSpecial, TermValues
      <4>2. Low(field) = 1 /\ High(field) = 31
        BY <3>1 DEF Low, High
      <4> HIDE DEF V
      <4>3. V \subseteq Low(field)..High(field) \union {AllSpec, NoSpec}
        BY <4>1, <4>2
      <4> QED
        BY <4>3 DEF V
    <3>2. CASE field = "dayOfWeek"
      <4>1. V = {NoSpec} \/ V = {7} \/ (V = {term.val} /\ term.val \in 1..7)
        BY <1>3, <3>2 DEF IsSpecial, TermValues
      <4>2. Low(field) = 1 /\ High(field) = 7
        BY <3>2 DEF Low, High
      <4> HIDE DEF V
      <4>3. V \subseteq Low(field)..High(field) \union {AllSpec, NoSpec}
        BY <4>1, <4>2
      <4> QED
        BY <4>3 DEF V
    <3> QED
      BY <2>1, <3>1, <3>2 DEF DayFields
  <2> QED
    BY <1>1, <2>2, <2>3
<1> QED
  BY <1>2, <1>3 DEF Ready, Documented

\* getTimeAfter: the calendar never leaves behind what it should have found.
THEOREM CronCorrect == Spec => []CronInv
<1> QED
  BY CronInvInit, CronInvNext, PTL DEF Spec

\* Of a documented expression the calendar stays inside the tables and the sets hold values
\* of their fields.
THEOREM CronTyped == Spec => [](Documented(text) => TypeOK)
<1>1. ASSUME CronInv, Documented(text) PROVE TypeOK
  <2>1. cl \in Nat /\ cl < CalendarEnd /\ pc \in {"build", "search", "found", "none", "rejected", "threw"}
    BY <1>1 DEF CronInv
  <2>2. cl \in 0..Instant(LastYear, 13, 1, 0, 0, 0)
    <3>1. Instant(LastYear, 13, 1, 0, 0, 0) = CalendarEnd /\ CalendarEnd \in Nat
      <4>1. LastYear \in CalendarYears /\ 13 \in 1..13 /\ 1 \in Int
        BY CalendarAssumption DEF CalendarYears
      <4>2. Instant(LastYear, 13, 1, 0, 0, 0) = (MonthStart[LastYear][13] + 1 - 1) * SecondsPerDay
        BY <4>1, InstantOfDay
      <4>3. MonthStart[LastYear][13] + 1 - 1 = MonthStart[LastYear][13]
        BY <4>1, StartIsNumber
      <4>4. CalendarEnd \in Nat
        BY <2>1, InstantHasDay
      <4> QED
        BY <4>2, <4>3, <4>4 DEF CalendarEnd
    <3> QED
      BY <2>1, <3>1
  <2>3. ASSUME pc \notin {"build", "rejected"}
        PROVE  \A field \in Fields \ {"year"} :
                 GetSet(field) \subseteq Low(field)..High(field) \union {AllSpec, NoSpec}
    <3>1. Ready
      BY <1>1, <2>3 DEF CronInv, Ready
    <3> QED
      BY <3>1, SetsInRange
  <2> QED
    BY <2>1, <2>2, <2>3 DEF TypeOK
<1> QED
  BY <1>1, CronCorrect, PTL

\* getTimeAfter: for every documented expression, every date and every calendar the answer is
\* the next time the expression means, with L-n (n > 0) taken for the comment's L-(n+1), and
\* there is none only if none is left.
THEOREM AnswersAreNext == Spec => [](Documented(text) => AnswerIsNext)
<1>1. CronInv => (Documented(text) => AnswerIsNext)
  BY DEF CronInv
<1> QED
  BY <1>1, CronCorrect, PTL

\* The expression has an L-n or L-nW, n > 0, which the code and the comment take differently.
CountsBack ==
  \E i \in DOMAIN text.dayOfMonth :
    text.dayOfMonth[i].form \in {"last", "lastW"} /\ text.dayOfMonth[i].val > 0

LEMMA PlainMeans ==
  ASSUME text \in Texts, ~CountsBack
  PROVE  /\ TimesMeant(AsCoded) = TimesMeant(text)
         /\ \A n : DateMeant(AsCoded, n) <=> DateMeant(text, n)
<1>1. \A i \in DOMAIN text.dayOfMonth : Coded(text.dayOfMonth[i]) = text.dayOfMonth[i]
  BY DEF CountsBack, Coded
<1>2. /\ DOMAIN AsCoded.dayOfMonth = DOMAIN text.dayOfMonth
      /\ \A i \in DOMAIN text.dayOfMonth : AsCoded.dayOfMonth[i] = text.dayOfMonth[i]
  BY <1>1, DaysAreCoded
<1>3. ASSUME NEW n PROVE DayMeant(AsCoded, n) <=> DayMeant(text, n)
  BY <1>2, OtherFields DEF DayMeant
<1>4. ASSUME NEW n PROVE DateMeant(AsCoded, n) <=> DateMeant(text, n)
  BY <1>3, OtherFields DEF DateMeant
<1>5. TimesMeant(AsCoded) = TimesMeant(text)
  BY OtherFields DEF TimesMeant
<1> QED
  BY <1>4, <1>5

\* getTimeAfter: the comment's own meaning, of every documented expression without L-n, n > 0.
THEOREM AnswersAreMeant ==
  Spec => [](Documented(text) /\ ~CountsBack =>
               /\ pc = "found" =>
                    cl > after /\ IsMeant(text, cl) /\ NoneBetween(text, after, cl)
               /\ pc = "none" => NoneBetween(text, after, EndOfYears))
<1>1. CronInv =>
        (Documented(text) /\ ~CountsBack =>
           /\ pc = "found" => cl > after /\ IsMeant(text, cl) /\ NoneBetween(text, after, cl)
           /\ pc = "none" => NoneBetween(text, after, EndOfYears))
  <2> SUFFICES ASSUME CronInv, Documented(text), ~CountsBack
               PROVE  /\ pc = "found" =>
                           cl > after /\ IsMeant(text, cl) /\ NoneBetween(text, after, cl)
                      /\ pc = "none" => NoneBetween(text, after, EndOfYears)
    OBVIOUS
  <2>1. /\ TimesMeant(AsCoded) = TimesMeant(text)
        /\ \A n : DateMeant(AsCoded, n) <=> DateMeant(text, n)
    BY PlainMeans DEF CronInv
  <2>2. \A x : IsMeant(AsCoded, x) <=> IsMeant(text, x)
    BY <2>1 DEF IsMeant
  <2>3. \A x, y : NoneBetween(AsCoded, x, y) <=> NoneBetween(text, x, y)
    BY <2>1 DEF NoneBetween
  <2>4. AnswerIsNext
    BY DEF CronInv
  <2> QED
    BY <2>2, <2>3, <2>4 DEF AnswerIsNext
<1> QED
  BY <1>1, CronCorrect, PTL

\* getTimeAfter: of a documented expression no set is empty where the search looks for its
\* first element, so that first() never throws a NoSuchElementException.
THEOREM NeverThrows == Spec => [](Documented(text) => pc # "threw")
<1>1. CronInv => (Documented(text) => pc # "threw")
  BY DEF CronInv
<1> QED
  BY <1>1, CronCorrect, PTL

=============================================================================

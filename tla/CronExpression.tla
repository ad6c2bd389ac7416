-------------------------- MODULE CronExpression --------------------------
(* com.snailwu.job.admin.core.cron.CronExpression: the constructor          *)
(* (buildExpression) and one call of getTimeAfter on the object, one action *)
(* per way an iteration of its loop ends.                                   *)
(*                                                                          *)
(* An expression's text is a record from the fields to sequences of terms   *)
(* (see CronMeaning); the characters between are left out, so are the names *)
(* of months and days, which stand for their numbers.                       *)
EXTENDS CronMeaning, TLC

CONSTANTS
  EndlessYear,     \* 2999
  Texts,           \* the expressions given to the constructor
  Afters           \* the dates given to getTimeAfter

NoSpec == 98

ASSUME CronAssumption ==
  /\ EndlessYear \in MaxYear..(LastYear - 2)
  /\ FirstYear >= Low("year")
  /\ Afters \subseteq 0..Instant(LastYear, 1, 1, 0, 0, 0)
  /\ {SecondsPerMinute, MinutesPerHour, HoursPerDay} \subseteq 1..NoSpec
  /\ \A text \in Texts :
       /\ Fields = DOMAIN text
       /\ \A field \in Fields : \A i \in DOMAIN text[field] :
            /\ text[field][i] \in [form : TermForms, val : Nat, end : Int, incr : Int]
            /\ text[field][i].end >= -1 /\ text[field][i].incr >= -1

VARIABLES
  text,    \* the expression
  expr,    \* the sets and flags buildExpression leaves in the object
  after,   \* the date to search from
  cl,      \* the calendar getTimeAfter moves
  pc       \* "build", "search", or how the calls ended: "found", "none",
           \* "rejected" (ParseException) or "threw" (NoSuchElementException)

vars == <<text, expr, after, cl, pc>>

Star == [form |-> "numbers", val |-> AllSpec, end |-> -1, incr |-> 0]

-----------------------------------------------------------------------------
(* buildExpression *)

StopAt(field, end) == IF end = -1 THEN High(field) ELSE end
StartAt(field, val) == IF val = AllSpec THEN Low(field) ELSE val

\* mutant: 12 % 12 is month 0
AddToSetModulo(field, val, end, incr) ==
  IF incr \in {0, -1} /\ val # AllSpec THEN {val}
  ELSE LET step == IF incr <= 0 THEN 1 ELSE incr
           start == StartAt(field, val)
           overflows == StopAt(field, end) < start
           max == High(field) + 1 - Low(field)
           stop == StopAt(field, end) + IF overflows THEN max ELSE 0
       IN  {IF overflows THEN i % max ELSE i :
              i \in {k \in start..stop : (k - start) % step = 0}}

\* mutant: the loop ends before stopAt
AddToSetShort(field, val, end, incr) ==
  IF incr \in {0, -1} /\ val # AllSpec THEN {val}
  ELSE {i \in StartAt(field, val)..(StopAt(field, end) - 1) :
          incr > 0 => (i - StartAt(field, val)) % incr = 0}

\* The values one call of addToSet(val, end, incr, type) adds
AddToSet(field, val, end, incr) ==
  IF incr \in {0, -1} /\ val # AllSpec THEN {val}
  ELSE LET step == IF incr <= 0 THEN 1 ELSE incr
           start == StartAt(field, val)
           overflows == StopAt(field, end) < start
           max == IF field \in {"second", "minute", "hour"}
                  THEN High(field) + 1 ELSE High(field)
           stop == StopAt(field, end) + IF overflows THEN max ELSE 0
           Value(i) == IF ~overflows THEN i
                       ELSE IF i % max = 0 /\ Low(field) = 1 THEN max
                       ELSE i % max
       IN  {Value(i) : i \in {k \in start..stop : (k - start) % step = 0}}
             \union (IF incr <= 0 THEN {AllSpec} ELSE {})

\* The checks of addToSet.  A year has none but that a range is in order; the numbers
\* 98 and 99 are the markers and pass for '?' and '*'
InBounds(field, val, end, incr) ==
  IF field = "year"
  THEN (incr <= 0 /\ val # AllSpec) \/ StartAt(field, val) <= StopAt(field, end)
  ELSE \/ val = AllSpec
       \/ val = NoSpec /\ field \in {"dayOfMonth", "dayOfWeek"}
       \/ val \in Low(field)..High(field) /\ end <= High(field)

\* checkIncrementRange, of n in */n and a/n only
IncrementInRange(field, incr) ==
  field = "year" \/ incr <= High(field)

\* storeExpressionVals and checkNext take the term.  An L where it has no
\* meaning is taken and adds nothing.
TermAccepted(field, term) ==
  CASE term.form = "numbers" ->
         /\ InBounds(field, term.val, term.end, term.incr)
         /\ term.end = -1 => IncrementInRange(field, term.incr)
    [] term.form = "?" -> field \in {"dayOfMonth", "dayOfWeek"}
    [] term.form \in {"last", "lastW"} -> field = "dayOfMonth" => term.val <= 30
    [] term.form = "lastDow" -> field = "dayOfWeek" /\ term.val \in 1..7
    [] term.form = "nearest" -> field = "dayOfMonth" /\ term.val <= 31
    [] term.form = "nth" -> field = "dayOfWeek" /\ term.incr \in 1..5

\* The values the term adds to the field's set
TermValues(field, term) ==
  CASE term.form = "numbers" -> AddToSet(field, term.val, term.end, term.incr)
    [] term.form = "?" -> {NoSpec}
    [] term.form \in {"last", "lastW"} -> IF field = "dayOfWeek" THEN {7} ELSE {}
    [] term.form \in {"lastDow", "nearest", "nth"} -> {term.val}

Having(terms, forms) == {i \in DOMAIN terms : terms[i].form \in forms}

\* Lists the code refuses: L with other days, more than one #
ListAccepted(field, terms) ==
  /\ (field \in {"dayOfMonth", "dayOfWeek"} /\ Len(terms) > 1)
        => Having(terms, {"last", "lastW", "lastDow"}) = {}
  /\ field = "dayOfWeek" => Cardinality(Having(terms, {"nth"})) <= 1

TermsOf(field) ==
  IF field = "year" /\ text.year = << >> THEN <<Star>> ELSE text[field]

FieldSet(field) ==
  UNION {TermValues(field, TermsOf(field)[i]) : i \in DOMAIN TermsOf(field)}

\* The val (or incr) of the field's term of one of these forms, or 0
Argument(field, forms, part) ==
  LET having == Having(TermsOf(field), forms)
  IN  IF having = {} THEN 0 ELSE TermsOf(field)[Max(having)][part]

Built ==
  [seconds |-> FieldSet("second"), minutes |-> FieldSet("minute"),
   hours |-> FieldSet("hour"), daysOfMonth |-> FieldSet("dayOfMonth"),
   months |-> FieldSet("month"), daysOfWeek |-> FieldSet("dayOfWeek"),
   years |-> FieldSet("year"),
   lastdayOfWeek |-> Having(text.dayOfWeek, {"lastDow"}) # {},
   nthdayOfWeek |-> Argument("dayOfWeek", {"nth"}, "incr"),
   lastdayOfMonth |-> Having(text.dayOfMonth, {"last", "lastW"}) # {},
   nearestWeekday |-> Having(text.dayOfMonth, {"lastW", "nearest"}) # {},
   lastdayOffset |-> Argument("dayOfMonth", {"last", "lastW"}, "val")]

\* One of the two day fields is '?' and the other is not.  The check of '?'
\* in storeExpressionVals refuses a part of what this refuses.
DaysAccepted ==
  NoSpec \in FieldSet("dayOfMonth") <=> NoSpec \notin FieldSet("dayOfWeek")

Accepted ==
  /\ \A field \in Fields :
       /\ ListAccepted(field, TermsOf(field))
       /\ \A i \in DOMAIN TermsOf(field) : TermAccepted(field, TermsOf(field)[i])
  /\ DaysAccepted

Build ==
  /\ pc = "build"
  /\ Accepted
  /\ expr' = Built
  /\ cl' = after + 1
  /\ pc' = "search"
  /\ UNCHANGED <<text, after>>

Reject ==
  /\ pc = "build"
  /\ ~Accepted
  /\ pc' = "rejected"
  /\ UNCHANGED <<text, expr, after, cl>>

\* getSet
GetSet(field) ==
  CASE field = "second" -> expr.seconds
    [] field = "minute" -> expr.minutes
    [] field = "hour" -> expr.hours
    [] field = "dayOfMonth" -> expr.daysOfMonth
    [] field = "month" -> expr.months
    [] field = "dayOfWeek" -> expr.daysOfWeek
    [] field = "year" -> expr.years

-----------------------------------------------------------------------------
(* getTimeAfter *)

\* TreeSet.tailSet
TailSet(set, v) == {x \in set : x >= v}
Wraps(set, v) == TailSet(set, v) = {}

\* The first value of set from v on, or the first of all
Following(set, v) == Min(IF Wraps(set, v) THEN set ELSE TailSet(set, v))

\* How many units the next larger field advances
Carry(set, v) == IF Wraps(set, v) THEN 1 ELSE 0

\* The calendar once an iteration has set its second
Aimed ==
  cl - Second(cl) + Following(expr.seconds, Second(cl))
     + Carry(expr.seconds, Second(cl)) * SecondsPerMinute

\* mutant: a Saturday the first goes back into the month before
NearestOverBoundary(year, mon, wanted) ==
  LET dow == DayOfWeek(MonthStart[year][mon] + wanted - 1)
  IN  wanted + IF dow = 7 THEN -1 ELSE IF dow = 1 THEN 1 ELSE 0

\* The day of the month the code fires on for aW and L-nW; wanted may lie
\* outside the month
NearestWeekday(year, mon, wanted) ==
  LET dow == DayOfWeek(MonthStart[year][mon] + wanted - 1)
  IN  wanted + CASE dow = 7 /\ wanted = 1 -> 2
                 [] dow = 7 /\ wanted # 1 -> -1
                 [] dow = 1 /\ wanted = LastDayOfMonth(mon, year) -> -2
                 [] dow = 1 /\ wanted # LastDayOfMonth(mon, year) -> 1
                 [] OTHER -> 0

\* Where the day-of-month rule sends a calendar at t
DayOfMonthTarget(t) ==
  LET last == LastDayOfMonth(Month(t), Year(t))
      wanted == IF expr.lastdayOfMonth THEN last - expr.lastdayOffset
                ELSE Min(expr.daysOfMonth)
      near == NearestWeekday(Year(t), Month(t), wanted)
      nTime == Instant(Year(t), Month(t), near, Hour(t), Minute(t), Second(t))
      tail == TailSet(expr.daysOfMonth, Day(t))
      This(day) == [day |-> day, month |-> Month(t)]
      NextMonthOn(day) == [day |-> day, month |-> Month(t) + 1]
  IN  IF expr.nearestWeekday
      THEN IF nTime >= after + 1 THEN This(near)
           ELSE NextMonthOn(IF expr.lastdayOfMonth THEN 1 ELSE wanted)
      ELSE IF expr.lastdayOfMonth
      THEN IF Day(t) > wanted THEN NextMonthOn(1) ELSE This(wanted)
      ELSE IF tail # {} /\ Min(tail) <= last THEN This(Min(tail))
           ELSE NextMonthOn(Min(expr.daysOfMonth))

\* Where the day-of-week rule sends it
DayOfWeekTarget(t) ==
  LET cDow == DayOfWeek(DayNumber(t))
      single == expr.lastdayOfWeek \/ expr.nthdayOfWeek # 0
      dow == IF single THEN Min(expr.daysOfWeek)
             ELSE Following(expr.daysOfWeek, cDow)
      day == Day(t) + (dow - cDow) + IF cDow > dow THEN 7 ELSE 0
      last == LastDayOfMonth(Month(t), Year(t))
      weekOfMonth == (day + 6) \div 7
      weeks == IF expr.lastdayOfWeek THEN (last - day) \div 7
               ELSE IF expr.nthdayOfWeek # 0 THEN expr.nthdayOfWeek - weekOfMonth
               ELSE 0
  IN  IF weeks < 0 \/ day + 7 * weeks > last
      THEN [day |-> 1, month |-> Month(t) + 1]
      ELSE [day |-> day + 7 * weeks, month |-> Month(t)]

DayTarget(t) ==
  IF NoSpec \in expr.daysOfWeek THEN DayOfMonthTarget(t) ELSE DayOfWeekTarget(t)

MinuteFits == Minute(Aimed) \in expr.minutes
HourFits == MinuteFits /\ Hour(Aimed) \in expr.hours
DayFits ==
  HourFits /\ DayTarget(Aimed) = [day |-> Day(Aimed), month |-> Month(Aimed)]
MonthFits ==
  /\ DayFits
  /\ Year(Aimed) <= MaxYear
  /\ Month(Aimed) \in expr.months

Looping ==
  /\ pc = "search"
  /\ Year(cl) <= EndlessYear
  /\ expr.seconds # {}

MoveTo(t) ==
  /\ cl' = t
  /\ UNCHANGED <<text, expr, after, pc>>

End(how) ==
  /\ pc' = how
  /\ UNCHANGED <<text, expr, after, cl>>

BeyondEndless ==
  /\ pc = "search"
  /\ Year(cl) > EndlessYear
  /\ End("none")

NextMinute ==
  /\ Looping
  /\ ~MinuteFits
  /\ expr.minutes # {}
  /\ MoveTo(Instant(Year(Aimed), Month(Aimed), Day(Aimed),
                    Hour(Aimed) + Carry(expr.minutes, Minute(Aimed)),
                    Following(expr.minutes, Minute(Aimed)), 0))

\* mutant: the minutes are left as they are when the hour moves
NextHourSameMinute ==
  /\ Looping
  /\ MinuteFits
  /\ ~HourFits
  /\ expr.hours # {}
  /\ MoveTo(Instant(Year(Aimed), Month(Aimed),
                    Day(Aimed) + Carry(expr.hours, Hour(Aimed)),
                    Following(expr.hours, Hour(Aimed)), Minute(Aimed), 0))

NextHour ==
  /\ Looping
  /\ MinuteFits
  /\ ~HourFits
  /\ expr.hours # {}
  /\ MoveTo(Instant(Year(Aimed), Month(Aimed),
                    Day(Aimed) + Carry(expr.hours, Hour(Aimed)),
                    Following(expr.hours, Hour(Aimed)), 0, 0))

NextDay ==
  /\ Looping
  /\ HourFits
  /\ ~DayFits
  /\ MoveTo(Instant(Year(Aimed), DayTarget(Aimed).month,
                    DayTarget(Aimed).day, 0, 0, 0))

\* "expressions that never generate a valid fire date"
BeyondMaxYear ==
  /\ Looping
  /\ DayFits
  /\ Year(Aimed) > MaxYear
  /\ End("none")

\* mutant: after the last month the year stays
NextMonthSameYear ==
  /\ Looping
  /\ DayFits
  /\ Year(Aimed) <= MaxYear
  /\ ~MonthFits
  /\ expr.months # {}
  /\ MoveTo(Instant(Year(Aimed), Following(expr.months, Month(Aimed)), 1, 0, 0, 0))

NextMonth ==
  /\ Looping
  /\ DayFits
  /\ Year(Aimed) <= MaxYear
  /\ ~MonthFits
  /\ expr.months # {}
  /\ MoveTo(Instant(Year(Aimed) + Carry(expr.months, Month(Aimed)),
                    Following(expr.months, Month(Aimed)), 1, 0, 0, 0))

NextYear ==
  /\ Looping
  /\ MonthFits
  /\ Year(Aimed) \notin expr.years
  /\ ~Wraps(expr.years, Year(Aimed))
  /\ MoveTo(Instant(Following(expr.years, Year(Aimed)), 1, 1, 0, 0, 0))

RanOutOfYears ==
  /\ Looping
  /\ MonthFits
  /\ Wraps(expr.years, Year(Aimed))
  /\ End("none")

Found ==
  /\ Looping
  /\ MonthFits
  /\ Year(Aimed) \in expr.years
  /\ cl' = Aimed
  /\ pc' = "found"
  /\ UNCHANGED <<text, expr, after>>

\* first() of an empty set, which an L in the field leaves
Throw ==
  /\ pc = "search"
  /\ Year(cl) <= EndlessYear
  /\ \/ expr.seconds = {}
     \/ expr.seconds # {} /\ expr.minutes = {}
     \/ expr.seconds # {} /\ MinuteFits /\ expr.hours = {}
     \/ /\ expr.seconds # {}
        /\ DayFits
        /\ Year(Aimed) <= MaxYear
        /\ expr.months = {}
  /\ End("threw")

Init ==
  /\ text \in Texts
  /\ expr = [field \in {} |-> {}]
  /\ after \in Afters
  /\ cl = 0
  /\ pc = "build"

Search ==
  \/ BeyondEndless \/ NextMinute \/ NextHour \/ NextDay \/ BeyondMaxYear
  \/ NextMonth \/ NextYear \/ RanOutOfYears \/ Found \/ Throw

Next == Build \/ Reject \/ Search

Spec == Init /\ [][Next]_vars

\* The thread that calls the method runs
FairSpec == Spec /\ WF_vars(Next)

-----------------------------------------------------------------------------
(* Properties *)

\* The sets hold values of their fields and the two markers, and the
\* calendar stays inside the years the model covers
TypeOK ==
  /\ pc \in {"build", "search", "found", "none", "rejected", "threw"}
  /\ cl \in 0..Instant(LastYear, 13, 1, 0, 0, 0)
  /\ pc \notin {"build", "rejected"} =>
       \A field \in Fields \ {"year"} :
         GetSet(field) \subseteq Low(field)..High(field) \union {AllSpec, NoSpec}

\* Each set buildExpression makes of numbers, steps and ranges holds exactly
\* the values the field's terms mean, over the end of the cycle too (98, which is the
\* marker of '?', is no number of a field)
FieldsMean ==
  pc \in {"search", "found", "none"} =>
    \A field \in Fields \ {"year"} :
      (\A i \in DOMAIN text[field] :
         text[field][i].form = "numbers" /\ text[field][i].val # NoSpec) =>
        \A v \in Low(field)..High(field) :
          v \in GetSet(field) <=> FieldMeans(field, text[field], v)

\* The code counts the n days of L-n back from the last, one more than the comment: the
\* expression whose meaning is what the code makes of text.  Any other text is as it is.
AsCoded ==
  LET Coded(term) == IF term.form \in {"last", "lastW"} /\ term.val > 0
                     THEN [term EXCEPT !.val = @ + 1] ELSE term
  IN  [text EXCEPT !.dayOfMonth = [i \in DOMAIN text.dayOfMonth |-> Coded(text.dayOfMonth[i])]]

\* "Returns the next date/time after the given date/time which satisfies the
\* cron expression": the answer is a time the expression means, no such time
\* lies between, and there is no answer only if no such time is left.  Except for L-n,
\* n > 0, which the code answers with the days the comment calls L-(n+1).
AnswerIsNext ==
  /\ pc = "found" =>
       /\ cl > after
       /\ IsMeant(AsCoded, cl)
       /\ NoneBetween(AsCoded, after, cl)
  /\ pc = "none" => NoneBetween(AsCoded, after, EndOfYears)

\* Every call comes to an end, whatever the expression: the loop of
\* getTimeAfter runs on the thread that scans the jobs
Ends == <>(pc \in {"found", "none", "rejected", "threw"})
-----------------------------------------------------------------------------
(* The inductive invariant of getTimeAfter *)

\* The first instant after the calendar's tables
CalendarEnd == MonthStart[LastYear][13] * SecondsPerDay

\* Two instants of one month
SameMonth(x, c) == Year(x) = Year(c) /\ Month(x) = Month(c)

\* The search may stand at c: what is meant and lies behind it lies in c's month, and of
\* that month only the rule for weekdays passes a day that is meant, when it aims at a day
\* number and the weekday is before it; the rule takes the calendar back then, and has not
\* moved its time of day past any that is meant.
Reached(c) ==
  /\ c \in Nat /\ c > after /\ c < CalendarEnd
  /\ LET times == TimesMeant(AsCoded)
     IN  \A n \in DayNumber(after)..DayNumber(c) : DayMeant(AsCoded, n) =>
           \A t \in times :
             LET passed == n * SecondsPerDay + t
             IN  passed > after /\ passed < c =>
                   /\ DateMeant(AsCoded, n) => SameMonth(passed, c)
                   /\ SameMonth(passed, c) =>
                        /\ expr.nearestWeekday
                        /\ DayNumber(after) < n
                        /\ \A s \in times : c % SecondsPerDay <= s

\* Of a documented expression getTimeAfter never leaves behind what it should find, and
\* never throws.
CronInv ==
  /\ text \in Texts
  /\ after \in Afters
  /\ pc \in {"build", "search", "found", "none", "rejected", "threw"}
  /\ pc \notin {"build", "rejected"} => Accepted /\ expr = Built
  /\ Documented(text) =>
       /\ pc # "threw"
       /\ cl \in Nat /\ cl < CalendarEnd
       /\ pc = "search" => Reached(cl)
       /\ AnswerIsNext
=============================================================================

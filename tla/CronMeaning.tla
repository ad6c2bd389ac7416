---------------------------- MODULE CronMeaning ----------------------------
(* What a cron expression means, as the comment that heads CronExpression   *)
(* says it: the values each field names, the days the day fields name, and  *)
(* the next time after a given one.  No parsing and no search.  Of the two   *)
(* ranges the comment gives days of the month, 1-31 and 0-31, this takes the *)
(* first; of months 1-12, where it says 0-11 beside JAN-DEC.  Both are the   *)
(* code's (MIN and MAX of addToSet); */n begins with a range's first.        *)
(*                                                                          *)
(* A term of a field is a record whose form is                              *)
(*   "numbers"  *, */n, a, a/n, a-b or a-b/n: the arguments the scanner      *)
(*              passes to addToSet (val is AllSpec for *, end is -1 if       *)
(*              there is no a-b, incr is 0 or -1 if there is no step)       *)
(*   "?"        no specific value                                           *)
(*   "last"     L or L-n (n is val); in the day-of-week field L is Saturday *)
(*   "lastW"    LW or L-nW                                                  *)
(*   "lastDow"  aL       "nearest"  aW       "nth"  a#n (n is incr)         *)
EXTENDS GregorianCalendar, Sequences

CONSTANTS
  MaxYear      \* MAX_YEAR: the year of the build plus 100

ASSUME MeaningAssumption == MaxYear \in FirstYear..LastYear

Fields == {"second", "minute", "hour", "dayOfMonth", "month", "dayOfWeek",
           "year"}

TermForms == {"numbers", "?", "last", "lastW", "lastDow", "nearest", "nth"}

AllSpec == 99

\* The least and the greatest value of a field, and the length of its cycle
Low(field) ==
  CASE field \in {"second", "minute", "hour"} -> 0
    [] field \in {"dayOfMonth", "month", "dayOfWeek"} -> 1
    [] field = "year" -> 1970

High(field) ==
  CASE field = "second" -> SecondsPerMinute - 1
    [] field = "minute" -> MinutesPerHour - 1
    [] field = "hour" -> HoursPerDay - 1
    [] field = "dayOfMonth" -> 31
    [] field = "month" -> 12
    [] field = "dayOfWeek" -> 7
    [] field = "year" -> MaxYear

Cycle(field) == High(field) - Low(field) + 1

\* The expressions of the comment: a field has numbers within its bounds, or one special
\* term, which names a weekday by a day that every month has
IsNumbers(field, term) ==
  /\ term.form = "numbers"
  /\ \/ term.val = AllSpec /\ term.end = -1
     \/ /\ term.val \in Low(field)..High(field)
        /\ term.end \in Low(field)..High(field) \union {-1}

IsSpecial(field, term) ==
  \/ field \in {"dayOfMonth", "dayOfWeek"} /\ term.form = "?"
  \/ /\ field = "dayOfMonth"
     /\ \/ term.form = "last" /\ term.val \in 0..30
        \/ term.form = "lastW" /\ term.val \in 0..27
        \/ term.form = "nearest" /\ term.val \in 1..28
  \/ /\ field = "dayOfWeek"
     /\ \/ term.form = "last"
        \/ term.form = "lastDow" /\ term.val \in 1..7
        \/ term.form = "nth" /\ term.val \in 1..7 /\ term.incr \in 1..5

Documented(text) ==
  \A field \in Fields :
     \/ field = "year" /\ text.year = << >>
     \/ DOMAIN text[field] # {} /\ \A i \in DOMAIN text[field] : IsNumbers(field, text[field][i])
     \/ DOMAIN text[field] = {1} /\ IsSpecial(field, text[field][1])

\* v is one of the values a term of numbers names; b before a in a-b runs
\* over the end of the field's cycle
TermMeans(field, term, v) ==
  LET from == IF term.val = AllSpec THEN Low(field) ELSE term.val
      single == term.incr <= 0 /\ term.val # AllSpec
      to == IF single THEN from
            ELSE IF term.end = -1 THEN High(field) ELSE term.end
      step == IF term.incr <= 0 THEN 1 ELSE term.incr
      past == (v - from) % Cycle(field)
  IN  IF from <= to
      THEN v \in from..to /\ (v - from) % step = 0
      ELSE past <= (to - from) % Cycle(field) /\ past % step = 0

FieldMeans(field, terms, v) ==
  \E i \in DOMAIN terms :
     terms[i].form = "numbers" /\ TermMeans(field, terms[i], v)

Distance(a, b) == IF a < b THEN b - a ELSE a - b

IsWeekday(n) == DayOfWeek(n) \in 2..6

\* Day n is the weekday of its month nearest to the day of the month wanted
IsNearestWeekday(n, wanted) ==
  LET date == DateOf[n]
      first == MonthStart[date.year][date.month]
      month == first..(first + LastDayOfMonth(date.month, date.year) - 1)
      aim == first + wanted - 1
  IN  /\ aim \in month
      /\ IsWeekday(n)
      /\ \A w \in month : IsWeekday(w) => Distance(n, aim) <= Distance(w, aim)

\* L-n is the n-th day from the end: "the third-to-last day" is L-3
BeforeLast(n) == IF n = 0 THEN 0 ELSE n - 1

\* The day fields of text name day n
DayMeant(text, n) ==
  LET date == DateOf[n]
      last == LastDayOfMonth(date.month, date.year)
      OfMonth(term) ==
        \/ term.form = "numbers" /\ TermMeans("dayOfMonth", term, date.day)
        \/ term.form = "last" /\ date.day = last - BeforeLast(term.val)
        \/ term.form = "lastW" /\ IsNearestWeekday(n, last - BeforeLast(term.val))
        \/ term.form = "nearest" /\ IsNearestWeekday(n, term.val)
      OfWeek(term) ==
        \/ term.form = "numbers" /\ TermMeans("dayOfWeek", term, DayOfWeek(n))
        \/ term.form = "last" /\ DayOfWeek(n) = 7
        \/ /\ term.form = "lastDow"
           /\ DayOfWeek(n) = term.val
           /\ date.day + 7 > last
        \/ /\ term.form = "nth"
           /\ DayOfWeek(n) = term.val
           /\ (date.day + 6) \div 7 = term.incr
  IN  \/ \E i \in DOMAIN text.dayOfMonth : OfMonth(text.dayOfMonth[i])
      \/ \E i \in DOMAIN text.dayOfWeek : OfWeek(text.dayOfWeek[i])

\* Text names day n; an absent year field means every year
DateMeant(text, n) ==
  /\ DateOf[n].year <= MaxYear
  /\ text.year = << >> \/ FieldMeans("year", text.year, DateOf[n].year)
  /\ FieldMeans("month", text.month, DateOf[n].month)
  /\ DayMeant(text, n)

\* The times of day text names
TimesMeant(text) ==
  {t \in 0..(SecondsPerDay - 1) :
     /\ FieldMeans("second", text.second, Second(t))
     /\ FieldMeans("minute", text.minute, Minute(t))
     /\ FieldMeans("hour", text.hour, Hour(t))}

\* Text names no instant later than after and earlier than end
NoneBetween(text, after, end) ==
  LET times == TimesMeant(text)
  IN  \A n \in DayNumber(after)..DayNumber(end) :
         DateMeant(text, n) =>
           \A t \in times :
              LET instant == n * SecondsPerDay + t
              IN  instant <= after \/ instant >= end

IsMeant(text, instant) ==
  /\ DateMeant(text, DayNumber(instant))
  /\ instant % SecondsPerDay \in TimesMeant(text)

\* The first instant after MaxYear
EndOfYears == Instant(MaxYear, 13, 1, 0, 0, 0)
=============================================================================

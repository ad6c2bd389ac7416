------------------------------ MODULE MCCron ------------------------------
(* Expressions and dates for TLC *)
EXTENDS CronExpression

Term(form, val, end, incr) ==
  [form |-> form, val |-> val, end |-> end, incr |-> incr]

One(a) == Term("numbers", a, -1, -1)
From(a, n) == Term("numbers", a, -1, n)                \* a/n
Range3(a, b, n) == Term("numbers", a, b, n)            \* a-b/n
Span(a, b) == Range3(a, b, 1)                          \* a-b
Every == <<Star>>
None == <<Term("?", 0, -1, 0)>>
Last(n) == <<Term("last", n, -1, 0)>>
LastW(n) == <<Term("lastW", n, -1, 0)>>
Nearest(a) == <<Term("nearest", a, -1, 0)>>
LastDow(a) == <<Term("lastDow", a, -1, 0)>>
Nth(a, n) == <<Term("nth", a, -1, n)>>

Text(s, mi, h, dom, mon, dow, y) ==
  [second |-> s, minute |-> mi, hour |-> h, dayOfMonth |-> dom,
   month |-> mon, dayOfWeek |-> dow, year |-> y]

\* Times of day, every day
Timely ==
  {Text(s, mi, h, Every, Every, None, << >>) :
     s \in {Every, <<One(2)>>, <<From(1, 2)>>},
     mi \in {Every, <<One(1)>>, <<Span(2, 0)>>},
     h \in {Every, <<One(0), One(3)>>, <<Range3(3, 1, 2)>>,
            <<From(AllSpec, 2)>>}}

\* Days of the month, days of the week, months and years, at two times of
\* day and at all of them
Daily ==
  {Text(<<One(2)>>, <<One(1)>>, h, d[1], d[2], d[3], d[4]) :
     h \in {<<One(1), One(3)>>, Every},
     d \in {<<<<One(31)>>, Every, None, << >>>>,
            <<<<One(29)>>, <<One(2)>>, None, << >>>>,
            <<<<One(30)>>, <<One(2)>>, None, << >>>>,
            <<<<One(5), One(28)>>, <<From(1, 3)>>, None, << >>>>,
            <<<<Span(30, 2)>>, Every, None, << >>>>,
            <<<<From(1, 10)>>, <<Span(11, 2)>>, None, << >>>>,
            <<Last(0), Every, None, << >>>>,
            <<Last(3), Every, None, << >>>>,
            <<Last(29), Every, None, << >>>>,
            <<LastW(0), Every, None, << >>>>,
            <<LastW(2), Every, None, << >>>>,
            <<Nearest(1), Every, None, << >>>>,
            <<Nearest(15), Every, None, << >>>>,
            <<Nearest(28), <<One(2), One(3)>>, None, << >>>>,
            <<None, Every, <<One(3)>>, << >>>>,
            <<None, <<One(12), One(1)>>, <<Span(7, 2)>>, << >>>>,
            <<None, Every, Last(0), << >>>>,
            <<None, Every, LastDow(6), << >>>>,
            <<None, Every, LastDow(1), << >>>>,
            <<None, Every, Nth(2, 1), << >>>>,
            <<None, Every, Nth(4, 5), << >>>>,
            <<<<One(1)>>, <<One(1)>>, None, <<Range3(2019, 2022, 2)>>>>,
            <<<<One(31)>>, <<One(12)>>, None, <<One(2021), One(2023)>>>>}}

\* Texts the constructor refuses, and texts it takes that throw later
Odd ==
  {Text(Every, Every, Every, Every, Every, Every, << >>),
   Text(Every, Every, Every, None, Every, None, << >>),
   Text(Every, Every, Every, <<One(32)>>, Every, None, << >>),
   Text(Every, Every, Every, <<One(NoSpec)>>, Every, <<One(4)>>, << >>),
   Text(Every, Every, Every, Every, Every, None, <<From(MaxYear + 1, 2)>>),
   Text(Every, Every, <<From(0, 6)>>, Every, Every, None, << >>),
   Text(Every, Every, Every, Last(0) \o <<One(3)>>, Every, None, << >>),
   Text(Every, Every, Every, None, Every, Nth(2, 1) \o Nth(3, 2), << >>),
   Text(Last(0), Every, Every, Every, Every, None, << >>),
   Text(Every, Last(0), Every, Every, Every, None, << >>),
   Text(Every, Every, Last(0), Every, Every, None, << >>),
   Text(Every, Every, Every, Every, Last(0), None, << >>)}

MCTexts == Timely \union Daily \union Odd

Start(year, mon, day) == Instant(year, mon, day, 0, 0, 0)

\* Every second of two days and the first and last of others: ends of months,
\* years and February, a leap year's too, and years past the last
MCAfters ==
  UNION {(Start(d[1], d[2], d[3]) - 1)..Start(d[1], d[2], d[3] + 1) :
           d \in {<<2020, 2, 28>>, <<2022, 12, 31>>}}
    \union UNION {{Start(d[1], d[2], d[3]) - 1, Start(d[1], d[2], d[3])} :
           d \in {<<2019, 12, 31>>, <<2020, 5, 1>>, <<2021, 7, 15>>,
                  <<2022, 7, 31>>, <<2023, 1, 30>>}}
    \union {Start(MaxYear, 13, 1), Start(MaxYear + 3, 1, 1)}
=============================================================================

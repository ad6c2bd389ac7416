------------------------------- MODULE Routing -------------------------------
(***************************************************************************)
(* How a trigger chooses an executor: the strategies behind ExecRouter.    *)
(* JobTrigger.doTrigger hands one of them the list of addresses that the   *)
(* app had when the trigger looked it up, and the strategy either looks at *)
(* the list only, or posts to its addresses one after the other until one  *)
(* gives the answer it waits for.                                          *)
(*                                                                         *)
(* The answers come from outside: a module that composes this one with     *)
(* executors gives them to FailOver and BusyOver.                          *)
(***************************************************************************)
EXTENDS Sequences

CONSTANTS
  Triggers,    \* triggers, by the log they write
  Addresses,   \* addresses of executors
  Lists,       \* the lists of addresses an app may have
  Strategies   \* per trigger, the strategies its job may have

VARIABLE route \* per trigger: strategy, the addresses not yet tried, the one chosen

Strategy == {"first", "last", "fail_over", "busy_over"}
Nowhere == "NOWHERE"   \* null, where an address may stand

Route == [pc: {"none", "route", "chosen", "not_found"}, strategy: Strategy \cup {"none"},
          left: Seq(Addresses), address: Addresses \cup {Nowhere}]
NoRoute == [pc |-> "none", strategy |-> "none", left |-> << >>, address |-> Nowhere]

RouteInit == route = [t \in Triggers |-> NoRoute]

\* doTrigger splits the addresses and calls the router of the job's strategy
StartRoute(t) ==
  /\ route[t].pc = "none"
  /\ \E s \in Strategies[t], list \in Lists :
       route' = [route EXCEPT ![t] = [NoRoute EXCEPT !.pc = "route", !.strategy = s, !.left = list]]

Routes(t, s) == route[t].pc = "route" /\ route[t].strategy = s /\ route[t].left # << >>
NextAddress(t) == Head(route[t].left)

\* the router returns an address; its locals are gone
Choose(t, a) == route' = [route EXCEPT ![t] = [NoRoute EXCEPT !.pc = "chosen", !.address = a]]
TryNext(t) == route' = [route EXCEPT ![t].left = Tail(@)]

First(t) == Routes(t, "first") /\ Choose(t, NextAddress(t))

Last(t) == Routes(t, "last") /\ Choose(t, route[t].left[Len(route[t].left)])

\* mutant: an exception of beat ends the loop
GiveUpAtFirst(t, answered) ==
  /\ Routes(t, "fail_over")
  /\ IF answered THEN Choose(t, NextAddress(t))
     ELSE route' = [route EXCEPT ![t].left = << >>]

\* beat, of one address: an answer is a success; an exception goes on to the next
FailOver(t, answered) ==
  /\ Routes(t, "fail_over")
  /\ IF answered THEN Choose(t, NextAddress(t)) ELSE TryNext(t)

\* idleBeat, of one address: whatever is not a success goes on to the next
BusyOver(t, idle) ==
  /\ Routes(t, "busy_over")
  /\ IF idle THEN Choose(t, NextAddress(t)) ELSE TryNext(t)

\* the list is empty, or has been tried to its end
NotFound(t) ==
  /\ route[t].pc = "route" /\ route[t].left = << >>
  /\ route' = [route EXCEPT ![t].pc = "not_found"]
=============================================================================

----------------------------- MODULE MCDispatch -----------------------------
(* Two triggers: a looks for an executor by posting to the list, and the one *)
(* it means to find is behind another in the list; b takes an end of it, and *)
(* its run has a timeout and a handler that may hang.                        *)
EXTENDS DispatchInv, TLC

CONSTANTS a, b, here, there

MCLogs == {a, b}
MCTimed == {b}
MCHanging == {b}
MCLossy == {a}
MCLists == {<<there, here>>}
MCStrategies == (a :> {"fail_over", "busy_over"}) @@ (b :> {"first", "last"})
=============================================================================

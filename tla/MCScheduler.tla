---------------------------- MODULE MCScheduler ----------------------------
(* Small instances of Scheduler for TLC, with expressions that end before the *)
(* clock does: "often" matches two seconds in three; of "ending", 2 and 7     *)
(* share a place of a ring of 5.                                              *)
EXTENDS SchedulerInv, TLC

MCOccOften == ("often" :> {1, 2, 4, 5, 7, 8})
MCOccEnding == ("ending" :> {1, 2, 4, 7})

\* the second job is there only once the first has been copied, or it has been saved
MCInit == Init /\ row[2].st = "FRESH"
MCFairSpec == MCInit /\ [][Next]_vars /\ Fairness
=============================================================================

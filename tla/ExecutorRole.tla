---------------------------- MODULE ExecutorRole ----------------------------
(* What the admin relies on when it posts a run request to an executor: the *)
(* request is taken or not, a request taken is reported on at most once, and *)
(* nothing else is reported.                                                 *)
CONSTANTS
  Logs,      \* ids of job_log, one per request
  Codes      \* results

VARIABLES
  taken,     \* the requests the executor has taken
  reports    \* the reports on each log

Init == taken = {} /\ reports = [l \in Logs |-> << >>]

Take(l) ==
  /\ l \notin taken
  /\ taken' = taken \cup {l}
  /\ UNCHANGED reports

Report(l, code) ==
  /\ l \in taken
  /\ reports[l] = << >>
  /\ reports' = [reports EXCEPT ![l] = <<code>>]
  /\ UNCHANGED taken

Next == \E l \in Logs : Take(l) \/ \E code \in Codes : Report(l, code)

Spec == Init /\ [][Next]_<<taken, reports>>
=============================================================================

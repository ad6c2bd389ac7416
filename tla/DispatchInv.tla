---------------------------- MODULE DispatchInv ----------------------------
(***************************************************************************)
(* Why the row of a trigger tells the truth: a request goes to one address *)
(* at most, the one that the row will name, and every result on its way to *)
(* the row is one that the executor at that address has reported.          *)
(***************************************************************************)
EXTENDS Dispatch, ExecutorInv

\* A trigger goes through its stages, the row is written at the end, and until the request
\* is posted no executor has seen it.
Stages ==
  \A l \in Logs :
    /\ trig[l] = "none" => route[l].pc = "none"
    /\ trig[l] = "route" => route[l].pc # "none"
    /\ trig[l] = "wait" => route[l].pc = "chosen"
    /\ trig[l] = "done" => route[l].pc = "none"
    /\ trig[l] # "done" => row[l].trigger = "NONE"
    /\ route[l].pc = "chosen" => route[l].address \in Addresses
    /\ route[l].pc # "chosen" => route[l].address = Nowhere
    /\ trig[l] \in {"none", "route"} => call[l] = "unsent" /\ far[l] = "none"

\* The request was posted to the address that was chosen, and to no other.
OneAddress ==
  \A l \in Logs :
    /\ trig[l] = "wait" => IF route[l].address = Here THEN call[l] # "unsent" /\ far[l] = "none"
                           ELSE call[l] = "unsent" /\ far[l] # "none"
    /\ trig[l] = "done" => IF row[l].address = Here THEN far[l] = "none" ELSE call[l] = "unsent"
    /\ trig[l] = "done" /\ row[l].address = Nowhere => far[l] = "none"
    /\ row[l].trigger = Success =>
         IF row[l].address = Here THEN call[l] = "accepted" ELSE far[l] # "none"

\* this code is what the executor that took the request of l has reported
Reported(l, code) ==
  IF call[l] = "accepted" THEN received[l] = <<code>> ELSE far[l] = code

Results ==
  /\ \A c \in callbacks : Reported(c.log, c.code)
  /\ \A l \in Logs : row[l].exec # "NONE" => Reported(l, row[l].exec)

\* While the executor in the list is there, the loop over the list has it before it.
Steady ==
  \A l \in Logs :
    /\ l \in steady => trig[l] = "route" /\ route[l].pc # "chosen"
    /\ l \in steady /\ route[l].strategy = "fail_over" =>
         \E i \in DOMAIN route[l].left : route[l].left[i] = Here
    /\ route[l].pc = "not_found" => route[l].left = << >>

DispatchIInv ==
  DispatchTypeOK /\ ExecutorIInv /\ Stages /\ OneAddress /\ Results /\ Steady
=============================================================================

------------------------------ MODULE CronFire ------------------------------
(***************************************************************************)
(* What a cron scheduler promises, without a table, a ring or a thread:    *)
(* now and then it pushes a job to the trigger pool, on account of one or  *)
(* more seconds its cron expression matches (more when it is so late that  *)
(* two of them fall together), never before such a second has come, and    *)
(* never twice for the same one, unless one of its threads has failed.     *)
(***************************************************************************)
EXTENDS Naturals, Sequences

CONSTANTS Jobs, Matches     \* the seconds a cron expression matches

VARIABLES
  clock,
  pushed,
  failed     \* has an exception ended the work of a thread?

Init ==
  /\ clock \in Nat
  /\ pushed = [j \in Jobs |-> << >>]
  /\ failed = FALSE

Answered(j) == UNION {pushed[j][i].occs : i \in DOMAIN pushed[j]}

Due(j) == {m \in Matches : m <= clock /\ (m \in Answered(j) => failed)}

Fire(j, O) ==
  /\ O # {} /\ O \subseteq Due(j)
  /\ pushed' = [pushed EXCEPT ![j] = Append(@, [occs |-> O, at |-> clock])]
  /\ UNCHANGED <<clock, failed>>

Fail == failed' = TRUE /\ UNCHANGED <<clock, pushed>>

Tick == clock' = clock + 1 /\ UNCHANGED <<pushed, failed>>

Next == Tick \/ Fail \/ \E j \in Jobs : \E O \in SUBSET Due(j) : Fire(j, O)

Spec == Init /\ [][Next]_<<clock, pushed, failed>>
=============================================================================

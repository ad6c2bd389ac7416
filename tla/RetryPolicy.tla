---------------------------- MODULE RetryPolicy ----------------------------
(***************************************************************************)
(* What a retry count promises, without a log, a pool or a monitor: an     *)
(* attempt of its own comes with some number of retries; a failed attempt  *)
(* with retries left may be repeated by one that has one less, and, as     *)
(* long as no thread or database has failed, only once.                    *)
(***************************************************************************)
EXTENDS Integers, Sequences

CONSTANT Budget        \* the retry counts a job may have

VARIABLES
  attempts,    \* of: the attempt repeated, or 0; left: known with the outcome
  failed       \* has there been a failure that may lead to one attempt too many?

Open == 0
Success == 200
Fail == 500

Repeated(a) == \E b \in DOMAIN attempts : attempts[b].of = a

Attempt(a) ==
  /\ attempts' = Append(attempts, [of |-> a, left |-> 0, outcome |-> Open])
  /\ UNCHANGED failed

Begin == Attempt(0)

Repeat(a) ==
  /\ attempts[a].outcome = Fail /\ attempts[a].left > 0
  /\ Repeated(a) => failed
  /\ Attempt(a)

End(a) ==
  /\ attempts[a].outcome = Open
  /\ \E left \in Budget, outcome \in {Success, Fail} :
       /\ attempts[a].of # 0 => left = attempts[attempts[a].of].left - 1
       /\ attempts' = [attempts EXCEPT ![a].left = left, ![a].outcome = outcome]
  /\ UNCHANGED failed

Failure == failed' = TRUE /\ UNCHANGED attempts

Init == attempts = << >> /\ failed = FALSE
Next == Begin \/ Failure \/ \E a \in DOMAIN attempts : Repeat(a) \/ End(a)
Spec == Init /\ [][Next]_<<attempts, failed>>
=============================================================================

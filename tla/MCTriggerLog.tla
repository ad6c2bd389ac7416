---------------------------- MODULE MCTriggerLog ----------------------------
(* Small instances of TriggerLog for TLC *)
EXTENDS TriggerLogInv, TLC

CONSTANTS w1, w2

\* the threads of the pool are alike
WorkerSymmetry == Permutations({w1, w2})
=============================================================================

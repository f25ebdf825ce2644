---------------------------- MODULE MCExpenses ----------------------------
(* The expense ledger on a small instance. *)
EXTENDS Expenses, TLC

\* Executions and keys are interchangeable.
Symmetry == Permutations(Request) \cup Permutations(Key)
=============================================================================

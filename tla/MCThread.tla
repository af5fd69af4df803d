------------------------------ MODULE MCThread ------------------------------
(* Instances of Thread for TLC. *)
EXTENDS Thread, TLC

CONSTANTS owner, client, worker, noOne, a, b, noTask

MCClients == {owner, client}
MCTasks == {a, b}

\* Only the identity of a task matters to the safety properties.
TaskSymmetry == Permutations(Tasks)
=============================================================================

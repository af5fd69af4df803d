---------------------------- MODULE MCThreadPool ----------------------------
(* Instance of ThreadPool for TLC: two workers, the owner and another client. *)
EXTENDS ThreadPool

CONSTANTS w1, w2, owner, client, a, b, noTask

MCWorkers == {w1, w2}
MCClients == {owner, client}
MCTasks == {a, b}
=============================================================================

---------------------------- MODULE MCBusThreads ----------------------------
(* Instance of BusThreads for TLC: two threads that own a handler, and a worker. *)
EXTENDS BusThreads

CONSTANTS th1, th2, worker, h1, h2, noOne, noHandler, noType, ev1, ev2

MCThreads == {th1, th2, worker}
MCUsers == {th1, th2}
MCHandlers == {h1, h2}
MCTypes == {ev1, ev2}
MCOwnerOf(h) == IF h = h1 THEN th1 ELSE th2
MCRank(c) == CASE c = th1 -> 1 [] c = th2 -> 2 [] c = worker -> 3
=============================================================================

-------------------------- MODULE MCThreadIdentity --------------------------
(* Instance of ThreadIdentity for TLC: an owner, two other threads, the worker. *)
EXTENDS ThreadIdentity, TLC

CONSTANTS owner, client, other, worker, i1, i2, i3, i4, post, noId, noTask

MCClients == {owner, client, other}
MCIds == {i1, i2, i3}

\* Identifiers are compared for equality only.
IdsAreAlike == Permutations(MCIds)
=============================================================================

---------------------------- MODULE MCSafeTasks -----------------------------
(* Instance of SafeTasks for TLC: two objects, three flags, one client. *)
EXTENDS SafeTasks, TLC

CONSTANTS owner, client, worker, i1, i2, i3, i4, post, noId, noTask,
          o1, o2, f1, f2, f3, noObject, noFlag

MCClients == {owner, client}
MCIds == {i1, i2, i3, i4}
MCObjects == {o1, o2}
MCFlags == {f1, f2, f3}

\* Identifiers, objects and flags are compared for equality only.
Alike == Permutations(MCIds) \cup Permutations(MCObjects) \cup Permutations(MCFlags)
=============================================================================

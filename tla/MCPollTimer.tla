---------------------------- MODULE MCPollTimer ----------------------------
(* Instances of PollTimer for TLC: a thread that has expired may still hold the
   mutex when the next Start creates another, and no third can join them. *)
EXTENDS PollTimer

CONSTANTS owner, client, r1, r2, noArg

OneUser == {owner}
TwoUsers == {owner, client}
MCRuns == {r1, r2}
=============================================================================

CONSTANTS
  owner = owner
  client = client
  r1 = r1
  r2 = r2
  noArg = noArg
  Users <- TwoUsers
  Owner = owner
  Runs <- MCRuns
  Timeouts = {50, 250}
  NoArg = noArg
  Repeats = {0, 1}
SPECIFICATION Spec
INVARIANTS
  OneTimer
\* The callers may do nothing more: the system may stop.
CHECK_DEADLOCK FALSE

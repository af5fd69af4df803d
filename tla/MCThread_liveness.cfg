CONSTANTS
  owner = owner
  client = client
  worker = worker
  noOne = noOne
  noTask = noTask
  a = a
  b = b
  Clients <- MCClients
  Owner = owner
  Worker = worker
  NoOne = noOne
  NoTask = noTask
  Tasks <- MCTasks
  Ops = {"PostTask", "PostDelayedTask", "BlockingCall", "Start", "Stop", "Delete"}
  Delays = {1000}
  MaxTick = 1
  Wraps = FALSE
  NumMod = 4
SPECIFICATION FairSpec
PROPERTIES
  AcceptedRuns
  StopReturns
  DeleteReleases
\* Callers may do nothing more, and each task is posted once: the system may stop.
CHECK_DEADLOCK FALSE

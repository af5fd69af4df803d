CONSTANTS
  owner = owner
  client = client
  worker = worker
  noOne = noOne
  noTask = noTask
  a = a
  b = b
  Clients <- MCClients
  Owner = owner
  Worker = worker
  NoOne = noOne
  NoTask = noTask
  Tasks <- MCTasks
  Ops = {"PostDelayedTask", "Start"}
  Delays = {1000}
  MaxTick = 1
  Wraps = TRUE
  NumMod = 4
SPECIFICATION FairSpec
PROPERTIES
  DelayedRuns
\* Callers may do nothing more, and each task is posted once: the system may stop.
CHECK_DEADLOCK FALSE

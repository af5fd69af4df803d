CONSTANTS
  owner = owner
  client = client
  worker = worker
  noOne = noOne
  noTask = noTask
  a = a
  b = b
  Clients <- MCClients
  Owner = owner
  Worker = worker
  NoOne = noOne
  NoTask = noTask
  Tasks <- MCTasks
  Ops = {"PostTask", "Start", "Stop"}
  Delays = {0}
  MaxTick = 0
  Wraps = FALSE
  NumMod = 4
SPECIFICATION Spec
PROPERTIES
  ReadyPostsDelivered
\* Callers may do nothing more, and each task is posted once: the system may stop.
CHECK_DEADLOCK FALSE

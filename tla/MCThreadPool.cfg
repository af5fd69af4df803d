CONSTANTS
  w1 = w1
  w2 = w2
  owner = owner
  client = client
  a = a
  b = b
  noTask = noTask
  Workers <- MCWorkers
  Clients <- MCClients
  Owner = owner
  Tasks <- MCTasks
  NoTask = noTask
SPECIFICATION FairSpec
INVARIANTS
  WakeUpPerTask
  DestroyedIsResolved
PROPERTIES
  ImplementsContract
  NothingHangs
\* Callers may do nothing more, and each task is enqueued once: the pool may stop.
CHECK_DEADLOCK FALSE

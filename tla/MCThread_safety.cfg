CONSTANTS
  owner = owner
  client = client
  worker = worker
  noOne = noOne
  noTask = noTask
  a = a
  b = b
  Clients <- MCClients
  Owner = owner
  Worker = worker
  NoOne = noOne
  NoTask = noTask
  Tasks <- MCTasks
  Ops = {"PostTask", "PostDelayedTask", "BlockingCall", "Quit", "Restart", "Start", "CreateFails", "Stop", "Delete"}
  Delays = {500, 2000}
  MaxTick = 2
  Wraps = FALSE
  NumMod = 4
SPECIFICATION Spec
INVARIANTS
  TypeOK
  NoLostWakeup
  FunctorLifetime
  CallerReleased
  StoppedIsIdle
  DelayedFifo
  NotEarly
PROPERTIES
  ImplementsTaskQueue
SYMMETRY TaskSymmetry
\* Callers may do nothing more, and each task is posted once: the system may stop.
CHECK_DEADLOCK FALSE

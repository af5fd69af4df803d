CONSTANTS
  owner = owner
  client = client
  worker = worker
  i1 = i1
  i2 = i2
  i3 = i3
  i4 = i4
  post = post
  noId = noId
  noTask = noTask
  o1 = o1
  o2 = o2
  f1 = f1
  f2 = f2
  f3 = f3
  noObject = noObject
  noFlag = noFlag
  Clients <- MCClients
  Owner = owner
  Worker = worker
  Ids <- MCIds
  NoId = noId
  Recycle = FALSE
  MaxQueue = 2
  Post = post
  NoTask = noTask
  Objects <- MCObjects
  Flags <- MCFlags
  NoObject = noObject
  NoFlag = noFlag
SYMMETRY Alike
SPECIFICATION SafeSpec
INVARIANTS
  TasksDoNotOverlap
  WorkerDoesNotWait
  CalledIsAlive
\* The identifiers run out, and a thread that was stopped without one stays so.
CHECK_DEADLOCK FALSE

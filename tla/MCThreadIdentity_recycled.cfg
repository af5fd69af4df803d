CONSTANTS
  owner = owner
  client = client
  other = other
  worker = worker
  i1 = i1
  i2 = i2
  i3 = i3
  i4 = i4
  post = post
  noId = noId
  noTask = noTask
  Clients <- MCClients
  Owner = owner
  Worker = worker
  Ids <- MCIds
  NoId = noId
  Recycle = TRUE
  MaxQueue = 2
  Post = post
  NoTask = noTask
SYMMETRY IdsAreAlike
SPECIFICATION Spec
INVARIANTS
  TasksDoNotOverlap
\* Everybody may wait for a thread that nobody starts.
CHECK_DEADLOCK FALSE

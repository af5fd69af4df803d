CONSTANTS
  th1 = th1
  th2 = th2
  worker = worker
  h1 = h1
  h2 = h2
  ev1 = ev1
  ev2 = ev2
  noOne = noOne
  noHandler = noHandler
  noType = noType
  Threads <- MCThreads
  Users <- MCUsers
  Handlers <- MCHandlers
  Types <- MCTypes
  MaxHolders = 2
  NoOne = noOne
  NoHandler = noHandler
  NoType = noType
  OwnerOf <- MCOwnerOf
  Rank <- MCRank
SPECIFICATION BFairSpec
INVARIANTS
  CalledIsAlive
  NoDeadlock
PROPERTIES
  SentToAll
  EveryCallReturns

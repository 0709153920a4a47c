\* Deletion and modification called, one restart; two sessions and three
\* transactions of each process, whose sessions outlive it at DF.
SPECIFICATION Spec
CONSTANTS
  k1 = k1
  a1 = a1
  a2 = a2
  NoAddr = NoAddr
  Key = {k1}
  RanInfo <- OneEndpoint
  SeidValue = {1, 2}
  MaxXid = 3
  MaxInc = 2
  PoolSize = 4
  SessApi = TRUE
  WaitBeforeRestart = TRUE
  DfPoolSize = 3
INVARIANTS
  EstablishedIfSeidsUsable
  NoDanglingRoute
\* An aborted process is not started again beyond MaxInc.
CHECK_DEADLOCK FALSE

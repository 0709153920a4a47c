\* Two sessions at most (four SEID nodes), any SEIDs the pool memory may hold.
SPECIFICATION FairSpec
CONSTANTS
  k1 = k1
  a1 = a1
  a2 = a2
  NoAddr = NoAddr
  Key = {k1}
  RanInfo <- Endpoints
  SeidValue = {0, 1, 2}
  MaxXid = 2
  MaxInc = 1
  PoolSize = 4
  SessApi = FALSE
  WaitBeforeRestart = TRUE
  DfPoolSize = 1
INVARIANTS
  TypeOK
  EstablishedIfSeidsUsable
  OperationalSeidKnown
PROPERTIES
  EstablishmentEnds
\* An aborted process is not started again beyond MaxInc.
CHECK_DEADLOCK FALSE

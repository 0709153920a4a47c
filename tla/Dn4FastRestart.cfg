\* A new process starts while DF still holds the transactions of the old one.
SPECIFICATION Spec
CONSTANTS
  k1 = k1
  a1 = a1
  a2 = a2
  NoAddr = NoAddr
  Key = {k1}
  RanInfo <- TwoEndpoints
  SeidValue = {1, 2}
  MaxXid = 1
  MaxInc = 2
  PoolSize = 2
  SessApi = FALSE
  WaitBeforeRestart = FALSE
  DfPoolSize = 2
INVARIANTS
  EstablishedIfSeidsUsable
\* An aborted process is not started again beyond MaxInc.
CHECK_DEADLOCK FALSE

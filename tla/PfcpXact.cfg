\* The counts of ogs-config.c (3 transmissions, held once): one transaction.
SPECIFICATION FairSpec
CONSTANTS
  x1 = x1
  Xid <- OneXid
  N1 = 3
  T1 = 3
  H1 = 1
  Delay = 2
  LastStart = 1
INVARIANTS
  TypeOK
  AtMostOnce
PROPERTIES
  ImplementsCall
  RequestEnds
  RequestForgotten
\* The transactions a run creates are bounded: it may come to rest.
CHECK_DEADLOCK FALSE

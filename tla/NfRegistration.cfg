SPECIFICATION FairSpec
CONSTANTS
  Interval = 2
  Margin = 1
  Reconnect = 3
  Retry = 1
  MaxFault = 3
INVARIANTS
  TypeOK
  HeartbeatsInTime
  GapBounded
PROPERTIES
  StaysRegistered
  DeadRemoved

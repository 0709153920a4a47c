\* Two triggers, two reports at a time, each sent twice.
SPECIFICATION FairSpec
CONSTANTS
  validity = validity
  quota = quota
  s1 = s1
  s2 = s2
  s3 = s3
  s4 = s4
  Null = null
  Report = report
  Slot = {s1, s2, s3, s4}
  Triggers <- InOrder
  Pool <- AllTimers
  User = {validity, quota, report}
  Period <- Periods
  MaxDuration = 3
  T1 = 1
  N1 = 2
  Threshold = 2
  MaxVolume = 3
INVARIANTS
  TypeOK
  TimersAccounted
  ListIntact
  TimersRun
  UsageReported
PROPERTIES
  ReportsGoOn
  ReportsEnd
\* Without a timer in the pool the process ends.
CHECK_DEADLOCK FALSE

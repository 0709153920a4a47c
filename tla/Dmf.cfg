\* One gNB, three reports, one more than the transaction pool, one restart.
SPECIFICATION Spec
CONSTANTS
  g1 = g1
  r1 = r1
  r2 = r2
  bad = bad
  Gnb = {g1}
  Ran = {r1, r2, bad}
  BadRan = {bad}
  XactPool = 2
  MaxReport = 3
  MaxCrash = 1
INVARIANTS
  TypeOK
  RanInfoIsLastReport
  OnlyRegisteredListed
  ForwardedAtMostOnce
\* A crashed process is not started again beyond MaxCrash.
CHECK_DEADLOCK FALSE

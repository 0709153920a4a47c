\* The transaction of a report times out.
SPECIFICATION Spec
CONSTANTS
  g1 = g1
  r1 = r1
  r2 = r2
  bad = bad
  Gnb = {g1}
  Ran = {r1, bad}
  BadRan = {bad}
  XactPool = 2
  MaxReport = 2
  MaxCrash = 1
INVARIANTS
  RegistrationLasts
\* A crashed process is not started again beyond MaxCrash.
CHECK_DEADLOCK FALSE

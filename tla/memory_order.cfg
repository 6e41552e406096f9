\* The thresholds of the code, one task that writes, no failure: the first
\* compression turns the messages it keeps.
CONSTANTS
  t1 = t1
  t2 = t2
  p1 = p1
  p2 = p2
  Writers = {t1}
  Updaters = {p1}
  CompressAt = 15
  WorkingMax = 20
  Keep = 5
  MaxMessages = 15
  MaxFaults = 0
SPECIFICATION Spec
INVARIANT ListIsChronological
CHECK_DEADLOCK FALSE

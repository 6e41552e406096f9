\* Two tasks write and two update the profile; a compression at four
\* messages keeps two; the window is one longer than the threshold.
CONSTANTS
  t1 = t1
  t2 = t2
  p1 = p1
  p2 = p2
  Writers <- MCWriters
  Updaters <- MCUpdaters
  CompressAt = 4
  WorkingMax = 5
  Keep = 2
  MaxMessages = 6
  MaxFaults = 1
SPECIFICATION Spec
INVARIANTS TypeOK OnlyKeptAreTurned AllSaidIsInContext ProfileIsLatest
PROPERTIES DroppedWasUnread ListIsCutBack
CHECK_DEADLOCK FALSE

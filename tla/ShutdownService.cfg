SPECIFICATION FairSpec
CONSTANTS
  t1 = t1
  k1 = k1
  k2 = k2
  d1 = d1
  d2 = d2
  s1 = s1
  s2 = s2
  Tasks = {t1}
  Cleanups = {k1, k2}
  Drains = {d1}
  Stops = {s1, s2}
\* The service ends stopped.
CHECK_DEADLOCK FALSE
INVARIANTS
  StoppedIsLast
PROPERTIES
  ShutdownCompletes
  DrainCompletes

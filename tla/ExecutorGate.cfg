SPECIFICATION FairSpec
CONSTANTS
  p1 = p1
  o1 = o1
  o2 = o2
  w1 = w1
  Posts = {p1}
  Completions = {o1, o2}
  Waits = {w1}
\* The gate ends drained, and everything with it.
CHECK_DEADLOCK FALSE
INVARIANTS
  CloseCancelsAll
  DrainedIsFinal
  CompletesOnce
  LateAnswersAreUndone
PROPERTIES
  IsDrainGate
  CloseDrains

CONSTANTS
  Tasks = {t1, t2}
  Handles = {h1}
  Gates = {}
  MaxRows = 2
  BreakFailures = 3
  NoTask = NoTask
  NoHandle = NoHandle

SPECIFICATION FairSpec
INVARIANTS
  ExclusiveAssignee
PROPERTIES
  DependentsPromoted
  StartSettles
  StopSettles

CONSTANTS
  Tasks = {t1}
  Handles = {h1}
  Gates = {g1}
  MaxRows = 1
  BreakFailures = 3
  NoTask = NoTask
  NoHandle = NoHandle

SPECIFICATION Spec
INVARIANTS
  QuestionsAnswerable

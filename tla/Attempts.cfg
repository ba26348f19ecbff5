CONSTANTS
  Tasks = {t1}
  Handles = {h1}
  Gates = {g1}
  MaxRows = 3
  BreakFailures = 3
  NoTask = NoTask
  NoHandle = NoHandle

SPECIFICATION Spec
INVARIANTS
  TypeOK
  OneActiveAttempt
  TaskAttemptAgreement
  WorkerAgreesWithDispatch
  DoubtBlocksTask
  LocalReportIsHeard
  LocalQuestionsAnswerable
  BreakerMonotone
PROPERTIES
  SettledIsFinal
  CompletedStaysCompleted
  WorkerStepsAreLegal
  ImplementsClaims

SPECIFICATION Spec
CONSTANTS
  MaxItems = 2
  Quota = 2
  PageSize = 1
  MaxPages = 2
  MaxControl = 0
  Reports = {"succeeded", "failed"}
  MayStop = TRUE
  MaxLate = 1
  MaxFaults = 2
INVARIANTS TypeOK OutcomeAgreed AckedWasImported WatermarkSafe NoRelayGap
PROPERTIES ToHomeChannel
CHECK_DEADLOCK FALSE

SPECIFICATION FairSpec
CONSTANTS
  MaxItems = 2
  Quota = 2
  PageSize = 2
  MaxPages = 1
  MaxControl = 2
  Reports = {"succeeded"}
  MayStop = FALSE
  MaxLate = 0
  MaxFaults = 1
PROPERTIES ToWorkerChannel ReportsSettle ControlDelivered
CHECK_DEADLOCK FALSE

SPECIFICATION FairSpec
CONSTANTS
  Panes = {"A", "B"}
  Coordinator = "A"
  Assignee = "B"
  Calls = {1, 2}
  BatchLimit = 1
  MaxMessages = 2
  MayBind <- Rebinds
  MaySettle = FALSE
  MaxBinds = 1
  MaxFaults = 0
PROPERTIES RunMailRead DispatchMailRead
CHECK_DEADLOCK FALSE

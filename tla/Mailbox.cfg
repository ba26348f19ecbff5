SPECIFICATION Spec
CONSTANTS
  Panes = {"A", "B"}
  Coordinator = "A"
  Assignee = "B"
  Calls = {1, 2}
  BatchLimit = 1
  MaxMessages = 2
  MayBind <- Takeovers
  MaySettle = TRUE
  MaxBinds = 2
  MaxFaults = 1
INVARIANTS TypeOK SoleHolder NotLockedOut NoDoubleHandout
PROPERTIES AckByOwner
CHECK_DEADLOCK FALSE

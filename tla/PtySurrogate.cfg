SPECIFICATION Spec
CONSTANTS
  Chunks <- OneEmoji
  Wide = {2}
  Window = 2
  FrameMax = 2
  Retain = 3
  MaxConns = 1
  MaxTokens = 1
  MaxFills = 0
INVARIANT RelaySurvives
CHECK_DEADLOCK FALSE

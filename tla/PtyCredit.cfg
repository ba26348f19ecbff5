SPECIFICATION FairSpec
CONSTANTS
  Chunks <- ThreeChunks
  Wide = {}
  Window = 2
  FrameMax = 2
  Retain = 3
  MaxConns = 3
  MaxTokens = 3
  MaxFills = 1
INVARIANTS TypeOK NothingRejected WithinWindow AckRecognized ExitAfterData
PROPERTIES OutputArrives RecoveryEnds ExitTold
CHECK_DEADLOCK FALSE

CONSTANTS
  MaxReq = 2
  MaxEvents = 1
  MaxDiag = 2
  PipeCap = 1
  Timeout = 1
  MaxWaits = 2
  EmitKinds = {"progress", "garbage"}
  CanCrash = TRUE
  DecodeErrors = TRUE
SPECIFICATION FairSpec
PROPERTY RequestAnsweredOrDied
CHECK_DEADLOCK FALSE

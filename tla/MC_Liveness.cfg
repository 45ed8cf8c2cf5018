CONSTANTS
  MaxReq = 2
  MaxEvents = 1
  MaxDiag = 2
  PipeCap = 1
  Timeout = 1
  MaxWaits = 2
  EmitKinds = {"progress", "garbage"}
  CanCrash = TRUE
  DecodeErrors = FALSE
SPECIFICATION FairSpec
PROPERTY RequestAnsweredOrDied
PROPERTY WaitReturns
CHECK_DEADLOCK FALSE

CONSTANTS
  MaxReq = 3
  MaxEvents = 1
  MaxDiag = 2
  PipeCap = 1
  Timeout = 0
  MaxWaits = 0
  EmitKinds = {"progress"}
  CanCrash = TRUE
  DecodeErrors = FALSE
SPECIFICATION FairSpec
PROPERTY SendReturns
CHECK_DEADLOCK FALSE

CONSTANTS
  MaxReq = 2
  MaxEvents = 1
  MaxDiag = 1
  PipeCap = 1
  Timeout = 1
  MaxWaits = 3
  EmitKinds = {"progress"}
  CanCrash = FALSE
  DecodeErrors = FALSE
SPECIFICATION Spec
INVARIANT StopNeverRaises
CHECK_DEADLOCK FALSE

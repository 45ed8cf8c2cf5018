CONSTANTS
  MaxReq = 2
  MaxEvents = 1
  MaxDiag = 1
  PipeCap = 1
  Timeout = 1
  MaxWaits = 3
  EmitKinds = {"error_obj", "error_str", "garbage"}
  CanCrash = TRUE
  DecodeErrors = TRUE
SPECIFICATION Spec
INVARIANT TypeOK
INVARIANT WaitResultAccounting
INVARIANT StopLeavesNoChild
PROPERTY SendNeverRaises
CHECK_DEADLOCK FALSE

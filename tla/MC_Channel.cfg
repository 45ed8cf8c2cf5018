CONSTANTS
  MaxReq = 2
  MaxEvents = 1
  MaxDiag = 1
  PipeCap = 2
  Timeout = 1
  MaxWaits = 3
  EmitKinds = {"progress", "garbage"}
  CanCrash = TRUE
  DecodeErrors = TRUE
SPECIFICATION Spec
PROPERTY StdoutFIFO
CHECK_DEADLOCK FALSE

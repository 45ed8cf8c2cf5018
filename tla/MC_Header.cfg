CONSTANTS
  MaxRuns = 3
SPECIFICATION Spec
INVARIANT HeaderLayoutSound
INVARIANT HeadersAfterRun
CHECK_DEADLOCK FALSE

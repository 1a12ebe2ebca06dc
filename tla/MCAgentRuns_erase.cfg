SPECIFICATION RunsSpec
CONSTANTS
  Turns = {t1}
  MaxAttempt = 1
  Terminals <- RunTerminals
  MaxDispatch = 2
  MaxCrashes = 1
  NoTerminal = NoTerminal
INVARIANTS
  ErasedUserLeavesNothing
CHECK_DEADLOCK FALSE

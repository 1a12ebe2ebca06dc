SPECIFICATION RunsSpec
CONSTANTS
  Turns = {t1}
  MaxAttempt = 2
  Terminals <- RunTerminals
  MaxDispatch = 2
  MaxCrashes = 0
  NoTerminal = NoTerminal
INVARIANTS
  RunsTypeOK
  PurgedStaysGone
PROPERTIES
  ErasedIsFrozen
  IndexMovesForward
CHECK_DEADLOCK FALSE

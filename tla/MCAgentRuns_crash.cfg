SPECIFICATION FairRunsSpec
CONSTANTS
  Turns = {t1}
  MaxAttempt = 1
  Terminals <- RunTerminals
  MaxDispatch = 2
  MaxCrashes = 2
  NoTerminal = NoTerminal
INVARIANTS
  OneModelRunPerLiveAttempt
  OneProposalPerLiveAttempt
  ClosedAfterDecision
PROPERTIES
  RunIsDecided
CHECK_DEADLOCK FALSE

SPECIFICATION FairSpec
CONSTANTS
  Costs = {3}
  Outputs = 1
  Workers = {w1, w2}
  Finalizers = {f1, f2}
  Dispatchers = {d1}
  MaxAttempt = 1
  MaxTransports = 2
  MaxStops = 1
  Nobody = Nobody
  NoRecord = NoRecord
INVARIANTS
  ProviderAskedOnce
  WithdrawnIsNeverInvoked
  DoneIsSettled
  DeliveredOnce
PROPERTIES
  AttemptOutcomeIsFinal
  Settles
CHECK_DEADLOCK FALSE

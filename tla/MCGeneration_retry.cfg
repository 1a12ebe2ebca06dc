SPECIFICATION Spec
CONSTANTS
  Costs = {0, 3}
  Outputs = 2
  Workers = {w1}
  Finalizers = {f1, f2}
  Dispatchers = {d1}
  MaxAttempt = 2
  MaxTransports = 1
  MaxStops = 0
  Nobody = Nobody
  NoRecord = NoRecord
INVARIANTS
  SettledIsPaidBack
  EveryRefundHasItsCause
  DeliveredOnce
PROPERTIES
  ImplementsPaidRequest
CHECK_DEADLOCK FALSE

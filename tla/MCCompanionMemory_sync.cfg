SPECIFICATION Spec
CONSTANTS
  Turns = {t1, t2}
  Deliveries = {w1, w2}
  MaxAttempt = 1
  MaxEvents = 3
  NoDelivery = NoDelivery
  NoVersion = NoVersion
SYMMETRY Interchangeable
INVARIANTS
  UnclearedMemoryIsTranscript
  WithdrawnIsForgotten
  PromotionIsCurrent
CHECK_DEADLOCK FALSE

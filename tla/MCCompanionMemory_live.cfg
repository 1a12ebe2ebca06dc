SPECIFICATION FairSpec
CONSTANTS
  Turns = {t1, t2}
  Deliveries = {w1}
  MaxAttempt = 2
  MaxEvents = 3
  NoDelivery = NoDelivery
  NoVersion = NoVersion
PROPERTIES
  SaidIsRemembered
CHECK_DEADLOCK FALSE

SPECIFICATION FairSpec
CONSTANTS
  LastCheckout = 2
  premium = premium
  coins = coins
  Baskets <- TwoPurchases
  CoinOffer = coins
  Convertible = TRUE
  LastRequest = 2
  Overlapping = 1
  MinMisses = 1
  MaxRefunds = 1
  Unlucky = {1}
INVARIANTS
  InvoicePostedOnce
  AccessAndCoinsAgree
  AbandonedIsNotGranted
PROPERTIES
  RefundIsFinal
  SettlementIsProcessed
CHECK_DEADLOCK FALSE
